---- MODULE Spec2Model ----
(***************************************************************************)
(* CannaHealth: the in-memory analysis record store (AnalysisStore: create *)
(* and list over a keyed map with two id counters) and the API handler     *)
(* that sits in front of it.                                               *)
(*                                                                         *)
(* JavaScript values are modelled as tagged records ([t |-> "number", ...])*)
(* and JavaScript strings as sequences of one-character strings, so that   *)
(* emptiness, substring, parsing and lexicographic comparison are computed *)
(* rather than assumed.  Objects that are shared by reference (item        *)
(* payloads) live in `heap`; objects that every boundary copies (records,  *)
(* item arrays, items) are values held by their owner (`store` or `ret`).  *)
(***************************************************************************)
EXTENDS Integers, Sequences, FiniteSets, TLC

VARIABLES
    clock,  \* the last reading of the wall clock taken by new Date()
    store,  \* globalThis.__cannaHealthAnalysisStore: NoStore or an AnalysisStore
    heap,   \* payload objects, by reference (address = index)
    call,   \* the last call made on the store (operation and arguments)
    ret,    \* the records that call returned: the caller's own objects
    created, \* history: what each create returned, as it was then, in call order
    res,    \* the response to the last request the handler answered
    frames, \* per arriving request: where its handler invocation stands, its locals
    given   \* history: the initial state the constructor was passed, if any

vars == <<clock, store, heap, call, ret, created, res, frames, given>>

(***************************************************************************)
(* Bounds of the model.                                                    *)
(***************************************************************************)
MaxCreates == 2   \* create calls explored per store
StartClock == 9   \* the earliest reading of the wall clock explored
MaxTicks == 1     \* how far after the earliest reading a reading may be
MaxRequests == 3  \* requests that arrive while others are pending or running

MaxClock == StartClock + MaxTicks

(***************************************************************************)
(* JavaScript values.                                                      *)
(***************************************************************************)
Undefined == [t |-> "undefined"]
Null == [t |-> "null"]
Num(n) == [t |-> "number", v |-> n]
Str(s) == [t |-> "string", v |-> s]
Arr(s) == [t |-> "array", v |-> s]
Ref(a) == [t |-> "object", ref |-> a]
Bool(b) == [t |-> "boolean", v |-> b]

\* A number of up to nine significant digits that is not an integer of up to
\* 31 bits: m / 10^k, with m not a multiple of 10 (k < 0 for an integer of more
\* than 31 bits).  (An integer n of up to 31 bits is Num(n); -0 is Num(0), from
\* which no operation of the program tells it.)
Dec(m, k) == [t |-> "number", v |-> m, scale |-> k]

\* A number of more than nine significant digits: digits / 10^k, with digits a
\* numeral (its first and last digit not 0), negated when negative.
Long(negative, digits, k) ==
    [t |-> "number", digits |-> digits, scale |-> k, negative |-> negative]

NaN == [t |-> "NaN"]
Infinity(negative) == [t |-> "Infinity", negative |-> negative]

\* x ?? d
Nullish(x, d) == IF x.t \in {"undefined", "null"} THEN d ELSE x

\* The truthiness of a value.
Truthy(x) ==
    CASE x.t = "undefined" -> FALSE
      [] x.t = "null" -> FALSE
      [] x.t = "NaN" -> FALSE
      [] x.t = "number" -> "digits" \in DOMAIN x \/ x.v # 0
      [] x.t = "string" -> Len(x.v) > 0
      [] x.t = "boolean" -> x.v
      [] OTHER -> TRUE

(***************************************************************************)
(* Strings: sequences of characters.  CodeOrder lists the characters that  *)
(* are ever compared, in UTF-16 code unit order.                           *)
(***************************************************************************)
Digits == <<"0", "1", "2", "3", "4", "5", "6", "7", "8", "9">>

CodeOrder == <<" ", "-", ".">> \o Digits \o <<":", "T", "Z">>

CharCode(c) == CHOOSE i \in DOMAIN CodeOrder : CodeOrder[i] = c

RECURSIVE StrLess(_, _)
\* a < b on strings: lexicographic by code unit, a proper prefix is smaller.
StrLess(a, b) ==
    IF b = <<>> THEN FALSE
    ELSE IF a = <<>> THEN TRUE
    ELSE IF Head(a) = Head(b) THEN StrLess(Tail(a), Tail(b))
    ELSE CharCode(Head(a)) < CharCode(Head(b))

\* haystack.includes(needle)
Includes(haystack, needle) ==
    \E i \in 0..(Len(haystack) - Len(needle)) :
        SubSeq(haystack, i + 1, i + Len(needle)) = needle

\* Date.prototype.toISOString keeps every field fixed-width, zero-padded and most
\* significant first.  The model keeps the two decimal digits in which the
\* explored instants differ, and the closing "Z".
ToISOString(t) == <<Digits[(t \div 10) + 1], Digits[(t % 10) + 1], "Z">>

IsDigit(c) == \E i \in DOMAIN Digits : Digits[i] = c

DigitOf(c) == (CHOOSE i \in DOMAIN Digits : Digits[i] = c) - 1

RECURSIVE NatToChars(_)
NatToChars(n) ==
    IF n < 10 THEN <<Digits[n + 1]>>
    ELSE NatToChars(n \div 10) \o <<Digits[(n % 10) + 1]>>

RECURSIVE Pow(_, _)
Pow(b, k) == IF k = 0 THEN 1 ELSE b * Pow(b, k - 1)

\* k zeros.
Zeros(k) == [i \in 1..k |-> "0"]

Abs(n) == IF n < 0 THEN -n ELSE n

\* Number::toString of a finite number.  With the k digits of the number and n
\* the place of its decimal point after the first digit's place: an integer
\* below 1e21 is its digits and zeros, a number from 1e-6 on has a decimal
\* point, any other number an exponent.
NumberToChars(x) ==
    LET long == "digits" \in DOMAIN x
        sign == IF (IF long THEN x.negative ELSE x.v < 0) THEN <<"-">> ELSE <<>>
        ds == IF long THEN x.digits ELSE NatToChars(Abs(x.v))
        k == Len(ds)
        n == IF "scale" \in DOMAIN x THEN k - x.scale ELSE k
    IN  sign \o
        (IF k <= n /\ n <= 21 THEN ds \o Zeros(n - k)
         ELSE IF 0 < n /\ n <= 21
         THEN SubSeq(ds, 1, n) \o <<".">> \o SubSeq(ds, n + 1, k)
         ELSE IF -6 < n /\ n <= 0 THEN <<"0", ".">> \o Zeros(-n) \o ds
         ELSE (IF k = 1 THEN ds ELSE <<ds[1], ".">> \o SubSeq(ds, 2, k))
                  \o <<"e", IF n - 1 < 0 THEN "-" ELSE "+">>
                  \o NatToChars(Abs(n - 1)))

CannotConvert ==
    <<"C", "a", "n", "n", "o", "t", " ", "c", "o", "n", "v", "e", "r", "t", " ",
      "o", "b", "j", "e", "c", "t", " ", "t", "o", " ", "p", "r", "i", "m", "i",
      "t", "i", "v", "e", " ", "v", "a", "l", "u", "e">>

\* The TypeError String() throws.
TypeError == [threw |-> TRUE, message |-> CannotConvert]

RECURSIVE StringThrows(_)
\* String(x) throws: x is an object with a toString key of its own (a value
\* parsed from JSON is never callable, and the valueOf it has or inherits gives
\* no primitive), or an array that holds such an object.
StringThrows(x) ==
    CASE x.t = "object" -> "v" \in DOMAIN x /\ "toString" \in DOMAIN x.v
      [] x.t = "array" -> \E i \in DOMAIN x.v : StringThrows(x.v[i])
      [] OTHER -> FALSE

RECURSIVE ToStr(_)
\* String(x): its characters, or the TypeError thrown.  An array is its
\* elements' strings joined by ","; null and undefined elements give the empty
\* string there.
ToStr(x) ==
    IF StringThrows(x) THEN TypeError
    ELSE
    CASE x.t = "string" -> x.v
      [] x.t = "number" -> NumberToChars(x)
      [] x.t = "NaN" -> <<"N", "a", "N">>
      [] x.t = "Infinity" ->
            (IF x.negative THEN <<"-">> ELSE <<>>)
                \o <<"I", "n", "f", "i", "n", "i", "t", "y">>
      [] x.t = "boolean" ->
            IF x.v THEN <<"t", "r", "u", "e">> ELSE <<"f", "a", "l", "s", "e">>
      [] x.t = "undefined" -> <<"u", "n", "d", "e", "f", "i", "n", "e", "d">>
      [] x.t = "null" -> <<"n", "u", "l", "l">>
      [] x.t = "array" ->
            IF x.v = <<>> THEN <<>>
            ELSE LET last == x.v[Len(x.v)]
                     lastStr == IF last.t \in {"undefined", "null"} THEN <<>>
                                ELSE ToStr(last)
                 IN  IF Len(x.v) = 1 THEN lastStr
                     ELSE ToStr(Arr(SubSeq(x.v, 1, Len(x.v) - 1)))
                              \o <<",">> \o lastStr
      [] OTHER ->
            <<"[", "o", "b", "j", "e", "c", "t", " ", "O", "b", "j", "e", "c", "t", "]">>

\* StrWhiteSpaceChar, the characters parseInt and parseFloat skip in front of
\* a number: white space and line terminators.  A character that a TLA+
\* string cannot hold is written as its code point.
WhiteSpace ==
    {"\t", "\n", "U+000B", "\f", "\r", " ", "U+00A0", "U+1680", "U+2000",
     "U+2001", "U+2002", "U+2003", "U+2004", "U+2005", "U+2006", "U+2007",
     "U+2008", "U+2009", "U+200A", "U+2028", "U+2029", "U+202F", "U+205F",
     "U+3000", "U+FEFF"}

\* The one element of a set of one element; its element is evaluated once.
The(S) == CHOOSE v \in S : TRUE

\* How many of the last elements of s, counted from the end, satisfy Skip.
Trailing(s, Skip(_)) ==
    The({CHOOSE t \in 0..Len(x) :
             /\ t = Len(x) \/ ~Skip(x[Len(x) - t])
             /\ \A u \in 0..(t - 1) : Skip(x[Len(x) - u]) : x \in {s}})

\* How many of the first elements of s satisfy Skip.
Leading(s, Skip(_)) ==
    The({CHOOSE t \in 0..Len(x) :
             /\ t = Len(x) \/ ~Skip(x[t + 1])
             /\ \A u \in 1..t : Skip(x[u]) : x \in {s}})

IsWhiteSpace(c) == c \in WhiteSpace
IsZeroChar(c) == c = "0"

\* s from its (n+1)-th character on.
Drop(s, n) == SubSeq(s, n + 1, Len(s))

SkipWhitespace(s) == Drop(s, Leading(s, IsWhiteSpace))

LeadingDigits(s) == SubSeq(s, 1, Leading(s, IsDigit))

RECURSIVE DecimalValue(_)
\* The value of at most nine digits.
DecimalValue(ds) ==
    IF ds = <<>> THEN 0
    ELSE DecimalValue(SubSeq(ds, 1, Len(ds) - 1)) * 10 + DigitOf(ds[Len(ds)])

StripLeadingZeros(ds) == Drop(ds, Leading(ds, IsZeroChar))

StripTrailingZeros(ds) == SubSeq(ds, 1, Len(ds) - Trailing(ds, IsZeroChar))

\* The significant digits of a digit string, and the zeros that follow them.
Significant(ds) == StripTrailingZeros(StripLeadingZeros(ds))
TrailingZeros(ds) == Len(StripLeadingZeros(ds)) - Len(Significant(ds))

(***************************************************************************)
(* Natural numbers of any size, for the arithmetic of doubles: a number is *)
(* its digits in base 10^4, the lowest first, the highest not 0 (0 is the  *)
(* empty sequence).                                                        *)
(***************************************************************************)
Base == 10000

IsZero(d) == d = 0

Trim(n) == The({SubSeq(x, 1, Len(x) - Trailing(x, IsZero)) : x \in {n}})

Limb(n, i) == IF i <= Len(n) THEN n[i] ELSE 0

\* One pass of carries: each limb keeps its low part and takes the high part
\* of the limb below.
Pass(n) ==
    [i \in 1..(Len(n) + 1) |->
        (IF i <= Len(n) THEN n[i] % Base ELSE 0)
            + (IF i > 1 THEN n[i - 1] \div Base ELSE 0)] \o <<>>

\* The carry into limb i of limbs in 0..Base: the nearest limb below i that is
\* not Base - 1 is Base.
CarryIn(n, i) ==
    LET t == CHOOSE t \in 1..i :
                 /\ t = i \/ n[i - t] # Base - 1
                 /\ \A u \in 1..(t - 1) : n[i - u] = Base - 1
    IN  IF t < i /\ n[i - t] >= Base THEN 1 ELSE 0

Ripple(n) ==
    [i \in 1..(Len(n) + 1) |-> (Limb(n, i) + CarryIn(n, i)) % Base] \o <<>>

\* The number whose limbs, before carrying, are n (each below 2^31).
Carried(n) ==
    The({Trim(IF \A i \in DOMAIN p : p[i] < Base THEN p ELSE Ripple(p)) :
            p \in {Pass(Pass(Pass(n)))}})

\* a * c for a small c (c * Base below 2^31).
MulSmall(a, c) == The({Carried([i \in DOMAIN x |-> x[i] * c] \o <<>>) : x \in {a}})

Longer(a, b) == IF Len(a) >= Len(b) THEN Len(a) ELSE Len(b)

Add(a, b) ==
    The({Carried([i \in 1..Longer(x, y) |-> Limb(x, i) + Limb(y, i)] \o <<>>) :
            x \in {a}, y \in {b}})

\* The borrow out of the limbs below i of differences in -Base..Base: the
\* nearest limb below i that is not 0 is negative.
BorrowIn(d, i) ==
    LET t == CHOOSE t \in 1..i :
                 /\ t = i \/ d[i - t] # 0
                 /\ \A u \in 1..(t - 1) : d[i - u] = 0
    IN  IF t < i /\ d[i - t] < 0 THEN 1 ELSE 0

\* a - b, for a >= b.
Sub(a, b) ==
    The({Trim([i \in DOMAIN d |-> (d[i] - BorrowIn(d, i) + Base) % Base] \o <<>>) :
            d \in {[i \in DOMAIN x |-> x[i] - Limb(y, i)] \o <<>> :
                      x \in {a}, y \in {b}}})

\* -1, 0 or 1 as a is below, equal to or above b.
Cmp(a, b) ==
    The({IF Len(x) # Len(y) THEN (IF Len(x) < Len(y) THEN -1 ELSE 1)
         ELSE The({IF t = Len(x) THEN 0
                   ELSE IF x[Len(x) - t] < y[Len(x) - t] THEN -1 ELSE 1 :
                      t \in {CHOOSE s \in 0..Len(x) :
                                 /\ s = Len(x) \/ x[Len(x) - s] # y[Len(x) - s]
                                 /\ \A u \in 0..(s - 1) :
                                       x[Len(x) - u] = y[Len(x) - u]}}) :
            x \in {a}, y \in {b}})

RECURSIVE Times(_, _, _)
\* a * c^n: half of the factors, then the other half.
Times(a, c, n) ==
    IF n = 0 THEN a
    ELSE IF n = 1 THEN MulSmall(a, c)
    ELSE The({Times(b, c, n - n \div 2) : b \in {Times(a, c, n \div 2)}})

\* a * 2^k
MulPow2(a, k) == The({MulSmall(b, Pow(2, k % 17)) : b \in {Times(a, 131072, k \div 17)}})

\* a * 5^k
MulPow5(a, k) == The({MulSmall(b, Pow(5, k % 7)) : b \in {Times(a, 78125, k \div 7)}})

\* a * 10^k
MulPow10(a, k) ==
    IF a = <<>> THEN <<>>
    ELSE [i \in 1..(k \div 4) |-> 0] \o MulSmall(a, Pow(10, k % 4))

\* a * Base^k
Shift(a, k) == IF a = <<>> THEN <<>> ELSE [i \in 1..k |-> 0] \o a

RECURSIVE QuotLimb(_, _, _, _)
\* The largest c in lo..hi with c * d <= a; lo * d <= a.
QuotLimb(a, d, lo, hi) ==
    IF lo = hi THEN lo
    ELSE LET mid == (lo + hi + 1) \div 2
         IN  IF Cmp(MulSmall(d, mid), a) <= 0 THEN QuotLimb(a, d, mid, hi)
             ELSE QuotLimb(a, d, lo, mid - 1)

RECURSIVE DivStep(_, _, _, _)
\* Long division: the limbs of the quotient from place k down, quot being
\* those above.
DivStep(rem, d, k, quot) ==
    IF k < 0 THEN [quot |-> Trim(quot), rem |-> rem]
    ELSE The({DivStep(Sub(rem, MulSmall(Shift(d, k), c)), d, k - 1, <<c>> \o quot) :
                 c \in {QuotLimb(rem, Shift(d, k), 0, Base - 1)}})

\* a divided by d, for a quotient below Base^4: quotient and remainder.
DivMod(a, d) == DivStep(a, d, 3, <<>>)

\* The limbs of a numeral (digits, the highest first).
FromDigits(ds) ==
    Trim([i \in 1..((Len(ds) + 3) \div 4) |->
            LET hi == Len(ds) - 4 * (i - 1)
                lo == IF hi - 3 < 1 THEN 1 ELSE hi - 3
            IN  (IF hi - 3 >= 1 THEN DigitOf(ds[hi - 3]) * 1000 ELSE 0)
                + (IF hi - 2 >= 1 THEN DigitOf(ds[hi - 2]) * 100 ELSE 0)
                + (IF hi - 1 >= 1 THEN DigitOf(ds[hi - 1]) * 10 ELSE 0)
                + DigitOf(ds[hi])] \o <<>>)

\* The numeral of a number: its decimal digits, the highest first (none for 0).
ToDigits(n) ==
    The({SubSeq(ds, Leading(ds, IsZeroChar) + 1, Len(ds)) :
            ds \in {[k \in 1..(4 * Len(n)) |->
                       Digits[((n[Len(n) - ((k - 1) \div 4)]
                                  \div Pow(10, 3 - ((k - 1) % 4))) % 10) + 1]] \o <<>>}})


TwoTo52 == <<496, 2737, 5996, 4503>>
TwoTo53 == <<992, 5474, 1992, 9007>>

\* The value sig * 10^e as a ratio of two natural numbers.
Ratio(sig, e) ==
    [num |-> IF e >= 0 THEN MulPow10(FromDigits(sig), e) ELSE FromDigits(sig),
     den |-> IF e < 0 THEN MulPow10(<<1>>, -e) ELSE <<1>>]

\* The ratio r divided by 2^s.
Over(r, s) ==
    The({[num |-> IF s < 0 THEN b ELSE r.num, den |-> IF s > 0 THEN b ELSE r.den] :
            b \in {MulPow2(IF s < 0 THEN r.num ELSE r.den, IF s < 0 THEN -s ELSE s)}})

\* r < 2^s
Below(r, s) == The({Cmp(f.num, f.den) < 0 : f \in {Over(r, s)}})

\* A number not above the binary logarithm of a value in [10^(mag-1), 10^mag).
LowBits(mag) == ((mag - 1) * 33219) \div 10000 - 1

\* The exponent p of the double nearest to r: r / 2^p is below 2^53 and, unless
\* p is the least exponent -1074, at least 2^52.
BinaryExponent(r, mag) ==
    The({The({p0 + (CHOOSE i \in 0..7 : below[i + 2] /\ (i = 0 \/ ~below[i + 1])) :
                 below \in {[i \in 1..9 |-> Below(r, p0 + i + 51)] \o <<>>}}) :
            p0 \in {IF LowBits(mag) - 52 < -1074 THEN -1074 ELSE LowBits(mag) - 52}})

\* The quotient d.quot rounded to the nearest integer, to the even one of two
\* equally near; 2^53 is 2^52 at the next exponent.
RoundQuotient(d, den, p) ==
    The({IF q = TwoTo53 THEN [q |-> TwoTo52, p |-> p + 1] ELSE [q |-> q, p |-> p] :
            q \in {IF twice > 0 \/ (twice = 0 /\ d.quot # <<>> /\ d.quot[1] % 2 = 1)
                   THEN Add(d.quot, <<1>>) ELSE d.quot :
                      twice \in {Cmp(MulSmall(d.rem, 2), den)}}})

Quotient(f, p) == The({RoundQuotient(d, f.den, p) : d \in {DivMod(f.num, f.den)}})

NearestAt(r, p) == The({Quotient(f, p) : f \in {Over(r, p)}})

\* The double q * 2^p nearest to sig * 10^e (IEEE 754 binary64, round to
\* nearest, ties to even); q = 0 is zero and p > 971 is an overflow.
NearestDouble(sig, e) ==
    The({NearestAt(r, BinaryExponent(r, Len(sig) + e)) : r \in {Ratio(sig, e)}})

PadTo(ds, n) == [i \in 1..(n - Len(ds)) |-> "0"] \o ds

\* n * 2^k as a number at the decimal exponent 0 (k >= 0) or k (k < 0):
\* n * 2^k = n * 5^(-k) * 10^k.
Scaled(n, k) == IF k >= 0 THEN MulPow2(n, k) ELSE MulPow5(n, -k)

\* The double q * 2^p and the bounds of the values that round to it, as
\* numerals of one length at one decimal exponent: v = 4q, lo = 4q - 2 (4q - 1
\* below a power of two), hi = 4q + 2, each times 2^(p-2).
Interval(q, p) ==
    The({[v |-> at[1], lo |-> at[2], hi |-> at[3],
          closed |-> q[1] % 2 = 0,
          exp |-> IF p >= 2 THEN 0 ELSE p - 2] :
            at \in {[i \in 1..3 |-> ToDigits(Scaled(ends[i], p - 2))] \o <<>> :
                       ends \in {<<R, Sub(R, <<IF q = TwoTo52 /\ p > -1074
                                                THEN 1 ELSE 2>>),
                                   Add(R, <<2>>)>> :
                                    R \in {MulSmall(q, 4)}}}})

Window(q, p) ==
    The({[v |-> PadTo(w.v, Len(w.hi)), lo |-> PadTo(w.lo, Len(w.hi)), hi |-> w.hi,
          closed |-> w.closed, exp |-> w.exp] : w \in {Interval(q, p)}})

\* -1, 0 or 1 as numeral a is below, equal to or above numeral b of its length.
LexCmp(a, b) ==
    LET t == CHOOSE t \in 0..Len(a) :
                 /\ t = Len(a) \/ a[t + 1] # b[t + 1]
                 /\ \A u \in 1..t : a[u] = b[u]
    IN  IF t = Len(a) THEN 0
        ELSE IF DigitOf(a[t + 1]) < DigitOf(b[t + 1]) THEN -1 ELSE 1

Inside(w, c) ==
    IF w.closed THEN LexCmp(w.lo, c) <= 0 /\ LexCmp(c, w.hi) <= 0
    ELSE LexCmp(w.lo, c) < 0 /\ LexCmp(c, w.hi) < 0

IsNine(c) == c = "9"

\* v cut after j digits, and the next numeral of j digits above it.
Down(w, j) == SubSeq(w.v, 1, j) \o [i \in 1..(Len(w.v) - j) |-> "0"]

Up(w, j) ==
    LET t == Trailing(SubSeq(w.v, 1, j), IsNine)
    IN  SubSeq(w.v, 1, j - t - 1) \o <<Digits[DigitOf(w.v[j - t]) + 2]>>
            \o [i \in 1..(Len(w.v) - j + t) |-> "0"]

\* -1, 0 or 1 as the digits of v after the j-th are below, equal to or above
\* a half of the j-th place.
Half(w, j) ==
    IF j = Len(w.v) THEN -1
    ELSE LexCmp(SubSeq(w.v, j + 1, Len(w.v)),
                <<"5">> \o [i \in 1..(Len(w.v) - j - 1) |-> "0"])

\* Of v cut after j digits and the next numeral above it, the nearer to v (the
\* even one of two equally near) when both are in the interval (down, up), the
\* one that is when one is, <<>> when none is.
Nearer(w, j, down, up) ==
    IF down /\ up
    THEN IF Half(w, j) < 0 \/ (Half(w, j) = 0 /\ DigitOf(w.v[j]) % 2 = 0)
         THEN Down(w, j) ELSE Up(w, j)
    ELSE IF down THEN Down(w, j)
    ELSE IF up THEN Up(w, j)
    ELSE <<>>

\* The numeral of j digits in the interval that is nearest to v (the even one
\* of two equally near), <<>> if there is none.
Closest(w, j) ==
    Nearer(w, j, Inside(w, Down(w, j)),
           (\E i \in 1..j : w.v[i] # "9") /\ Inside(w, Up(w, j)))

RECURSIVE FindShortest(_, _)
FindShortest(w, j) ==
    The({IF c # <<>> THEN c ELSE FindShortest(w, j + 1) : c \in {Closest(w, j)}})

Stripped(c, exp) ==
    [digits |-> SubSeq(c, Leading(c, IsZeroChar) + 1, Len(c) - Trailing(c, IsZeroChar)),
     exp |-> exp + Trailing(c, IsZeroChar)]

Numeral(w) == The({Stripped(c, w.exp) : c \in {FindShortest(w, 1)}})

\* The shortest decimal numeral that rounds to the double q * 2^p (the digits
\* Number::toString prints), with its decimal exponent.
ShortestDecimal(q, p) == The({Numeral(w) : w \in {Window(q, p)}})

Shortest(d) ==
    IF d.q = <<>> THEN [digits |-> <<>>, exp |-> 0, finite |-> TRUE]
    ELSE IF d.p > 971 THEN [digits |-> <<>>, exp |-> 0, finite |-> FALSE]
    ELSE The({[digits |-> n.digits, exp |-> n.exp, finite |-> TRUE] :
                 n \in {ShortestDecimal(d.q, d.p)}})

\* The double nearest to sig * 10^e as the numeral Number::toString prints:
\* no digits for 0, not finite for an overflow.
AsDouble(sig, e) == The({Shortest(d) : d \in {NearestDouble(sig, e)}})

MaxInt == <<"2", "1", "4", "7", "4", "8", "3", "6", "4", "7">>

\* sig * 10^e, e >= 0, is an integer the model holds as an integer: of up to
\* 31 bits.
Fits(sig, e) ==
    \/ Len(sig) + e <= 9
    \/ Len(sig) + e = 10 /\ LexCmp(sig \o Zeros(e), MaxInt) <= 0

\* The number sig * 10^e, negated when negative, for a numeral sig of a
\* double: Num for an integer of up to 31 bits, Dec(m, k) = m / 10^k for
\* another of up to nine digits, Long for any other.
Canonical(negative, sig, e) ==
    IF e >= 0 /\ Fits(sig, e)
    THEN Num((IF negative THEN -1 ELSE 1) * DecimalValue(sig \o Zeros(e)))
    ELSE IF Len(sig) <= 9
    THEN Dec((IF negative THEN -1 ELSE 1) * DecimalValue(sig), -e)
    ELSE Long(negative, sig, -e)

\* No double lies between the numerals that differ only beyond their 800th
\* digit and the numeral with a digit 1 there (the numeral half way between
\* two doubles has fewer than 800 digits).
Sticky(sig) == IF Len(sig) > 800 THEN SubSeq(sig, 1, 800) \o <<"1">> ELSE sig

\* The double nearest to sig * 10^e, for a numeral sig.  A value from 1e310
\* on is beyond the largest double, one below 1e-324 is below half the
\* smallest; a numeral of up to 15 digits from 1e-307 up to 1e308 is the
\* shortest that rounds to its double, so Number::toString prints it back.
Rounded(negative, sig, e) ==
    IF Len(sig) + e >= 310 THEN Infinity(negative)
    ELSE IF Len(sig) + e <= -324 THEN Num(0)
    ELSE IF Len(sig) <= 15 /\ Len(sig) + e >= -306 /\ Len(sig) + e <= 308
    THEN Canonical(negative, sig, e)
    ELSE The({IF ~d.finite THEN Infinity(negative)
              ELSE IF d.digits = <<>> THEN Num(0)
              ELSE Canonical(negative, d.digits, d.exp) :
                 d \in {AsDouble(Sticky(sig), e + Len(sig) - Len(Sticky(sig)))}})

\* The Number of the decimal digits ds times 10^e, negated when negative.
MakeNumber(negative, ds, e) ==
    IF Significant(ds) = <<>> THEN Num(0)
    ELSE Rounded(negative, Significant(ds), e + TrailingZeros(ds))

\* The integer a string starts with: leading white space, an optional sign,
\* decimal digits; NaN when there is no digit there.
LeadingNumber(s) ==
    LET t == SkipWhitespace(s)
        signed == t # <<>> /\ Head(t) \in {"-", "+"}
        ds == LeadingDigits(IF signed THEN Tail(t) ELSE t)
    IN  IF ds = <<>> THEN NaN
        ELSE MakeNumber(signed /\ Head(t) = "-", ds, 0)

\* Number.parseInt(s, 10)
ParseInt(s) == LeadingNumber(s)

\* A string without its leading white space and optional sign.
Unsigned(s) ==
    LET t == SkipWhitespace(s)
    IN  IF t # <<>> /\ Head(t) \in {"-", "+"} THEN Tail(t) ELSE t

\* The sign in front of the string is a minus.
Negative(s) ==
    LET t == SkipWhitespace(s)
    IN  t # <<>> /\ Head(t) = "-"

\* What follows the leading digits of u.
AfterInt(u) == Drop(u, Len(LeadingDigits(u)))

\* The digits after the decimal point that follows the leading digits of u.
Fraction(u) ==
    LET r == AfterInt(u)
    IN  IF r # <<>> /\ Head(r) = "." THEN LeadingDigits(Tail(r)) ELSE <<>>

\* What follows the leading digits, the point and the fraction digits of u.
AfterFraction(u) ==
    LET r == AfterInt(u)
    IN  IF r # <<>> /\ Head(r) = "." THEN Drop(r, 1 + Len(LeadingDigits(Tail(r))))
        ELSE r

\* The value of an exponent's digits, 10^9 for any value from 10^9 on: a
\* string has fewer than 2^29 characters, so no mantissa brings such an
\* exponent back between 1e-324 and 1e310.
ExponentValue(ds) ==
    IF Len(StripLeadingZeros(ds)) > 9 THEN 1000000000
    ELSE DecimalValue(StripLeadingZeros(ds))

\* The exponent r starts with: e or E, an optional sign and at least one digit;
\* 0 when there is none.
Exponent(r) ==
    IF r # <<>> /\ Head(r) \in {"e", "E"}
    THEN LET rest == Tail(r)
             signed == rest # <<>> /\ Head(rest) \in {"-", "+"}
             ds == LeadingDigits(IF signed THEN Tail(rest) ELSE rest)
         IN  IF signed /\ Head(rest) = "-" THEN -ExponentValue(ds)
             ELSE ExponentValue(ds)
    ELSE 0

\* The digits of the decimal literal u starts with, integer and fraction.
Mantissa(u) == LeadingDigits(u) \o Fraction(u)

\* Number.parseFloat(s): leading white space, an optional sign, then Infinity
\* or the longest decimal literal (digits, a point and digits, an exponent
\* with at least one digit); NaN when there is none.
ParseFloat(s) ==
    IF Len(Unsigned(s)) >= 8
       /\ SubSeq(Unsigned(s), 1, 8) = <<"I", "n", "f", "i", "n", "i", "t", "y">>
    THEN Infinity(Negative(s))
    ELSE IF Mantissa(Unsigned(s)) = <<>>
    THEN NaN
    ELSE MakeNumber(Negative(s), Mantissa(Unsigned(s)),
                    Exponent(AfterFraction(Unsigned(s))) - Len(Fraction(Unsigned(s))))

\* Number.isFinite(x): a number that is neither NaN nor an Infinity.
IsFinite(x) == x.t = "number"

(***************************************************************************)
(* Program strings.                                                        *)
(***************************************************************************)
SeedAuthor == <<"S", "y", "s", "t", "e", "m">>
SeedTitle ==
    <<"I", "n", "i", "t", "i", "a", "l", " ", "d", "e", "p", "l", "o", "y", "m",
      "e", "n", "t", " ", "v", "a", "l", "i", "d", "a", "t", "i", "o", "n">>
SeedNotes ==
    <<"S", "e", "e", "d", "e", "d", " ", "a", "n", "a", "l", "y", "s", "i", "s",
      " ", "t", "o", " ", "v", "e", "r", "i", "f", "y", " ", "d", "e", "p", "l",
      "o", "y", "m", "e", "n", "t", " ", "w", "i", "r", "i", "n", "g", ".">>
SeedLabel ==
    <<"d", "e", "p", "l", "o", "y", "m", "e", "n", "t", "-", "s", "t", "a", "t",
      "u", "s">>
SeedMessage ==
    <<"V", "e", "r", "c", "e", "l", " ", "p", "r", "e", "v", "i", "e", "w", " ",
      "s", "e", "e", "d", "e", "d">>
PlaceholderLabel ==
    <<"a", "u", "t", "o", "-", "g", "e", "n", "e", "r", "a", "t", "e", "d">>
PlaceholderMessage ==
    <<"N", "o", " ", "a", "n", "a", "l", "y", "s", "i", "s", " ", "i", "t", "e",
      "m", "s", " ", "p", "r", "o", "v", "i", "d", "e", "d", ";", " ", "g", "e",
      "n", "e", "r", "a", "t", "e", "d", " ", "p", "l", "a", "c", "e", "h", "o",
      "l", "d", "e", "r", " ", "e", "n", "t", "r", "y", ".">>

AllowedMethods == <<"G", "E", "T", ",", " ", "P", "O", "S", "T">>
MethodNotAllowed ==
    <<"M", "e", "t", "h", "o", "d", " ", "N", "o", "t", " ", "A", "l", "l", "o",
      "w", "e", "d">>
PayloadMustBeObject ==
    <<"P", "a", "y", "l", "o", "a", "d", " ", "m", "u", "s", "t", " ", "b", "e",
      " ", "a", "n", " ", "o", "b", "j", "e", "c", "t">>
SnapshotIdRequired ==
    <<"s", "n", "a", "p", "s", "h", "o", "t", "_", "i", "d", " ", "i", "s", " ",
      "r", "e", "q", "u", "i", "r", "e", "d">>
AuthorTitleRequired ==
    <<"a", "u", "t", "h", "o", "r", " ", "a", "n", "d", " ", "t", "i", "t", "l",
      "e", " ", "a", "r", "e", " ", "r", "e", "q", "u", "i", "r", "e", "d">>
GET == <<"G", "E", "T">>
POST == <<"P", "O", "S", "T">>

\* What crypto.randomUUID() may return: a token no earlier call has returned
\* (each call is followed by a new object on the heap hp).
UUIDs(hp) == {<<"u">> \o NatToChars(Len(hp) + 1)}

(***************************************************************************)
(* Map<number, StoredAnalysis>: entries in insertion order.                *)
(***************************************************************************)
MapHas(m, k) == \E i \in DOMAIN m : m[i].key = k

MapGet(m, k) == m[CHOOSE i \in DOMAIN m : m[i].key = k].value

\* Mutant: the map is replaced by one that holds the new entry alone.
MapSetAlone(m, k, v) == <<[key |-> k, value |-> v]>>

\* Map.prototype.set: an existing key keeps its place, a new key goes last.
MapSet(m, k, v) ==
    IF MapHas(m, k)
    THEN [i \in DOMAIN m |-> IF m[i].key = k THEN [key |-> k, value |-> v] ELSE m[i]]
    ELSE Append(m, [key |-> k, value |-> v])

\* Array.from(map.values())
MapValues(m) == [i \in DOMAIN m |-> m[i].value]

(***************************************************************************)
(* The heap of payload objects.                                            *)
(***************************************************************************)
\* A new object literal: its address is the next free index.
Alloc(hp, obj) == [heap |-> Append(hp, obj), ref |-> Ref(Len(hp) + 1)]

\* obj[key] = val
SetProp(obj, key, val) ==
    [k \in DOMAIN obj \cup {key} |-> IF k = key THEN val ELSE obj[k]]

\* A record as a reader sees it: every payload reference followed into the heap.
Deep(analysis, hp) ==
    [analysis EXCEPT !.items =
        [i \in DOMAIN @ |->
            [@[i] EXCEPT !.payload =
                IF "ref" \in DOMAIN @ THEN [t |-> "object", v |-> hp[@.ref]] ELSE @]]]

(***************************************************************************)
(* analysisStore: cloneAnalysis, createInitialState, list, create.         *)
(***************************************************************************)
\* { ...analysis, items: analysis.items.map((item) => ({ ...item })) }: a new
\* record object, a new array and new item objects; every field value,
\* the payload reference included, is copied as it is.
cloneAnalysis(analysis) ==
    [key \in DOMAIN analysis |->
        IF key = "items"
        THEN [i \in DOMAIN analysis.items |->
                 [k \in DOMAIN analysis.items[i] |-> analysis.items[i][k]]]
        ELSE analysis[key]]

\* Mutant: the initial state is built without the seed.
createInitialStateUnseeded(now, hp) ==
    [state |-> [nextAnalysisId |-> 2, nextItemId |-> 2, analyses |-> <<>>],
     heap |-> hp]

\* createInitialState(), with the heap the seed's payload object is put in.
createInitialState(now, hp) ==
    LET payload == Alloc(hp, [message |-> SeedMessage])
        initialAnalysis ==
            [id |-> 1,
             snapshotId |-> Num(101),
             author |-> SeedAuthor,
             title |-> SeedTitle,
             notes |-> Str(SeedNotes),
             createdAt |-> ToISOString(now),
             items |-> <<[id |-> 1,
                          analysisId |-> 1,
                          label |-> SeedLabel,
                          score |-> Num(1),
                          payload |-> payload.ref]>>]
    IN  [state |-> [nextAnalysisId |-> 2,
                    nextItemId |-> 2,
                    analyses |-> MapSet(<<>>, initialAnalysis.id, initialAnalysis)],
         heap |-> payload.heap]

\* analysis.<name> ?? fallback, for a field a stored record may lack: id and
\* createdAt are optional in StoredAnalysis.
OrElse(analysis, name, fallback) ==
    IF name \in DOMAIN analysis THEN analysis[name] ELSE fallback

\* Mutant: the comparator orders oldest first.
CompareAscending(a, b) ==
    LET aDate == OrElse(a, "createdAt", <<>>)
        bDate == OrElse(b, "createdAt", <<>>)
    IN  IF aDate = bDate
        THEN OrElse(b, "id", 0) - OrElse(a, "id", 0)
        ELSE IF StrLess(aDate, bDate) THEN -1 ELSE 1

\* The comparator of list's sort.
Compare(a, b) ==
    LET aDate == OrElse(a, "createdAt", <<>>)
        bDate == OrElse(b, "createdAt", <<>>)
    IN  IF aDate = bDate
        THEN OrElse(b, "id", 0) - OrElse(a, "id", 0)
        ELSE IF StrLess(aDate, bDate) THEN 1 ELSE -1

(***************************************************************************)
(* list works on objects: the store's state (the map and its records), the *)
(* payload objects, and the arrays the call makes, each at the next free   *)
(* address.  An array holds references to records of the map: their places *)
(* in it.                                                                  *)
(***************************************************************************)
ListMemory(st, hp) == [state |-> st, heap |-> hp, arrays |-> <<>>]

\* The record a reference points to.
RecordAt(mem, r) == mem.state.analyses[r].value

\* Array.from(this.state.analyses.values()): a new array of the map's records,
\* in insertion order.
ArrayFrom(mem) ==
    [mem EXCEPT !.arrays = Append(@, [e \in DOMAIN mem.state.analyses |-> e])]

\* Mutant: filter removes from the map the records it leaves out.
filterInPlace(mem, a, snapshotId) ==
    [mem EXCEPT
        !.state.analyses =
            SelectSeq(@, LAMBDA entry : entry.value.snapshotId = snapshotId),
        !.arrays =
            Append(@, [i \in 1..Len(SelectSeq(mem.arrays[a],
                                        LAMBDA r : RecordAt(mem, r).snapshotId = snapshotId))
                         |-> i])]

\* array.filter((analysis) => analysis.snapshotId === snapshotId): a new array
\* of the elements that pass.
filter(mem, a, snapshotId) ==
    [mem EXCEPT !.arrays =
        Append(@, SelectSeq(mem.arrays[a],
                            LAMBDA r : RecordAt(mem, r).snapshotId = snapshotId))]

\* array.slice(): a new array of the same elements.
slice(mem, a) == [mem EXCEPT !.arrays = Append(@, mem.arrays[a])]

RECURSIVE Insert(_, _, _)
Insert(mem, x, s) ==
    IF s = <<>> THEN <<x>>
    ELSE IF Compare(RecordAt(mem, x), RecordAt(mem, Head(s))) < 0 THEN <<x>> \o s
    ELSE <<Head(s)>> \o Insert(mem, x, Tail(s))

RECURSIVE Sort(_, _)
\* The elements of s in the order of Compare; elements that compare equal keep
\* their order (the sort is stable).
Sort(mem, s) ==
    IF s = <<>> THEN <<>>
    ELSE Insert(mem, s[Len(s)], Sort(mem, SubSeq(s, 1, Len(s) - 1)))

\* array.sort(compare): the array itself is put in order.
sort(mem, a) == [mem EXCEPT !.arrays[a] = Sort(mem, @)]

\* array.map((analysis) => cloneAnalysis(analysis)): the clones, in the order
\* of the array.
mapClone(mem, a) ==
    [i \in DOMAIN mem.arrays[a] |-> cloneAnalysis(RecordAt(mem, mem.arrays[a][i]))]

\* The address of the array made last.
Last(mem) == Len(mem.arrays)

\* records, and filtered: filter's array if a filter is given, else records.
Filtered(mem, snapshotId) ==
    IF Truthy(snapshotId) THEN filter(mem, Last(mem), snapshotId) ELSE mem

\* AnalysisStore.list(snapshotId) on the store state st and the payload
\* objects hp, statement by statement: what it returns, and the state and the
\* payload objects it leaves.
listRun(st, hp, snapshotId) ==
    The({[ret |-> mapClone(sorted, Last(sorted)), state |-> sorted.state,
          heap |-> sorted.heap] :
            sorted \in {sort(copy, Last(copy)) :
                copy \in {slice(filtered, Last(filtered)) :
                    filtered \in {Filtered(records, snapshotId) :
                        records \in {ArrayFrom(ListMemory(st, hp))}}}}})

\* What list(snapshotId) returns on the store state st.
list(st, hp, snapshotId) == listRun(st, hp, snapshotId).ret

\* this.state after list(snapshotId).
stateAfterList(st, hp, snapshotId) == listRun(st, hp, snapshotId).state

\* The payload objects after list(snapshotId).
heapAfterList(st, hp, snapshotId) == listRun(st, hp, snapshotId).heap

\* Mutant: the counter is read but never advanced.
PostIncrementStuck(n) == n

\* counter++ leaves the counter one higher (the old value is the one used).
PostIncrement(n) == n + 1

\* Mutant: the item counter is advanced once, however many items are pushed.
AdvanceOnce(n, k) == PostIncrement(n)

RECURSIVE Advance(_, _)
\* The counter after k post-increments.
Advance(n, k) == IF k = 0 THEN n ELSE Advance(PostIncrement(n), k - 1)

\* Mutant: the item's own id is written where the owner's id belongs.
pushItemSelfOwned(itemId, id, item) ==
    [id |-> itemId,
     analysisId |-> itemId,
     label |-> item.label,
     score |-> item.score,
     payload |-> item.payload]

\* The item create pushes for an input item.
pushItem(itemId, id, item) ==
    [id |-> itemId,
     analysisId |-> id,
     label |-> item.label,
     score |-> item.score,
     payload |-> item.payload]

\* Mutant: the emptiness test is inverted.
NeedsPlaceholderInverted(items) == Len(items) > 0

\* analysis.items.length === 0, the test that calls for the placeholder.
NeedsPlaceholder(items) == Len(items) = 0

\* AnalysisStore.create(input) on the store state st at clock reading now;
\* uuid is what randomUUID() returns if the placeholder is made.
create(st, hp, now, input, uuid) ==
    LET id == st.nextAnalysisId
        nextAnalysisId == PostIncrement(st.nextAnalysisId)
        createdAt == ToISOString(now)
        items == Nullish(input.items, Arr(<<>>)).v
        pushed ==
            [i \in DOMAIN items |->
                pushItem(Advance(st.nextItemId, i - 1), id, items[i])]
        afterLoop == Advance(st.nextItemId, Len(items))
        empty == NeedsPlaceholder(pushed)
        placeholder ==
            Alloc(hp, [id |-> uuid, message |-> PlaceholderMessage])
        analysis ==
            [id |-> id,
             snapshotId |-> input.snapshotId,
             author |-> input.author,
             title |-> input.title,
             notes |-> Nullish(input.notes, Undefined),
             createdAt |-> createdAt,
             items |-> IF empty
                       THEN Append(pushed,
                                   [id |-> afterLoop,
                                    analysisId |-> id,
                                    label |-> PlaceholderLabel,
                                    score |-> Num(0),
                                    payload |-> placeholder.ref])
                       ELSE pushed]
    IN  [state |-> [nextAnalysisId |-> nextAnalysisId,
                    nextItemId |-> IF empty THEN PostIncrement(afterLoop)
                                   ELSE afterLoop,
                    analyses |-> MapSet(st.analyses, id, analysis)],
         heap |-> IF empty THEN placeholder.heap ELSE hp,
         record |-> cloneAnalysis(analysis)]

(***************************************************************************)
(* The process-wide store.                                                 *)
(***************************************************************************)
NoStore == [t |-> "undefined"]

NoResponse == [status |-> 0]

Constructed(st) == st # NoStore

\* new AnalysisStore(initialState): this.state = initialState ?? createInitialState().
\* The clock is read only when the state is made here.
NewStore(initialState, now, hp) ==
    IF initialState.t \in {"undefined", "null"}
    THEN LET init == createInitialState(now, hp)
         IN  [store |-> [t |-> "AnalysisStore", state |-> init.state],
              heap |-> init.heap]
    ELSE [store |-> [t |-> "AnalysisStore", state |-> initialState.v], heap |-> hp]

\* Mutant: every access makes a new store.
getAnalysisStoreAnew(st, now, hp) == NewStore(Undefined, now, hp)

\* getAnalysisStore(): the process's store, made with new AnalysisStore() on
\* first access.
getAnalysisStore(st, now, hp) ==
    IF st = NoStore THEN NewStore(Undefined, now, hp) ELSE [store |-> st, heap |-> hp]

(***************************************************************************)
(* pages/api/admin/analysis: parseSnapshotId, normalizeCreatePayload and   *)
(* the handler.  A parsed JSON object is [t |-> "object", v |-> fields]; a *)
(* field that is absent reads as undefined.                                *)
(***************************************************************************)
Obj(fields) == [t |-> "object", v |-> fields]

\* data[name]
Field(data, name) ==
    IF data.t = "object" /\ name \in DOMAIN data.v THEN data.v[name] ELSE Undefined

\* typeof x === "object" (null included)
TypeofObject(x) == x.t \in {"object", "array", "null"}

\* Number.isNaN(parsed) ? undefined : parsed
UndefinedIfNaN(parsed) == IF parsed.t = "NaN" THEN Undefined ELSE parsed

parseSnapshotId(value) ==
    IF value.t = "undefined" THEN Undefined
    ELSE LET raw == IF value.t = "array"
                    THEN (IF Len(value.v) > 0 THEN value.v[1] ELSE Undefined)
                    ELSE value
         IN  IF StringThrows(raw) THEN TypeError
             ELSE UndefinedIfNaN(IF raw.t = "undefined" THEN NaN
                                 ELSE ParseInt(ToStr(raw)))

\* The entries of itemsInput that are objects (arrays included), not null.
ItemObjects(itemsInput) ==
    SelectSeq(itemsInput, LAMBDA item : TypeofObject(item) /\ item.t # "null")

\* String(item.label ?? "") or String(item.score ?? 0) throws for an entry.
ItemsThrow(itemsInput) ==
    \E i \in DOMAIN ItemObjects(itemsInput) :
        \/ StringThrows(Nullish(Field(ItemObjects(itemsInput)[i], "label"), Str(<<>>)))
        \/ StringThrows(Nullish(Field(ItemObjects(itemsInput)[i], "score"), Num(0)))

\* The object entries with label and score coerced, in order.
\* score || 0
OrZero(score) == IF Truthy(score) THEN score ELSE Num(0)

\* One object entry with label and score coerced.
CoercedItem(item) ==
    [label |-> ToStr(Nullish(Field(item, "label"), Str(<<>>))),
     score |-> OrZero(ParseFloat(ToStr(Nullish(Field(item, "score"), Num(0))))),
     payload |-> Field(item, "payload")]

CoercedItems(itemsInput) ==
    [i \in DOMAIN ItemObjects(itemsInput) |-> CoercedItem(ItemObjects(itemsInput)[i])]

\* Mutant: items whose label is empty after coercion are kept.
normalizeItemsUnfiltered(itemsInput) ==
    IF ItemsThrow(itemsInput) THEN TypeError ELSE CoercedItems(itemsInput)

\* The items normalizeCreatePayload keeps, in order: objects only, label and
\* score coerced, empty labels dropped; or the TypeError a coercion throws.
normalizeItems(itemsInput) ==
    IF ItemsThrow(itemsInput) THEN TypeError
    ELSE SelectSeq(CoercedItems(itemsInput), LAMBDA item : Len(item.label) > 0)

\* Mutant: only an absent author or title is refused, an empty one is let through.
MissingOnlyIfAbsent(author, title) == author.t = "undefined" \/ title.t = "undefined"

\* !author || !title
Missing(author, title) == ~Truthy(author) \/ ~Truthy(title)

\* data.snapshot_id ?? data.snapshotId ?? ""
RawSnapshotId(data) ==
    Nullish(Field(data, "snapshot_id"), Nullish(Field(data, "snapshotId"), Str(<<>>)))

\* typeof data.<name> === "string" ? data.<name> : undefined
StringField(data, name) ==
    IF Field(data, name).t = "string" THEN Field(data, name) ELSE Undefined

\* Array.isArray(data.items) ? data.items : []
BodyItems(data) ==
    IF Field(data, "items").t = "array" THEN Field(data, "items").v ELSE <<>>

\* The statements of normalizeCreatePayload after the body's fields are read,
\* in order: each value is used only where the code has computed it.
Validated(raw, snapshotId, author, title, notes, itemsInput, items) ==
    IF StringThrows(raw)
    THEN TypeError
    ELSE IF ~IsFinite(snapshotId)
    THEN [threw |-> TRUE, message |-> SnapshotIdRequired]
    ELSE IF Missing(author, title)
    THEN [threw |-> TRUE, message |-> AuthorTitleRequired]
    ELSE IF ItemsThrow(itemsInput)
    THEN TypeError
    ELSE [threw |-> FALSE,
          input |-> [snapshotId |-> snapshotId,
                     author |-> author.v,
                     title |-> title.v,
                     notes |-> notes,
                     items |-> Arr(items)]]

\* normalizeCreatePayload(body): the CreateAnalysisInput, or the Error thrown.
normalizeCreatePayload(body) ==
    IF ~Truthy(body) \/ ~TypeofObject(body)
    THEN [threw |-> TRUE, message |-> PayloadMustBeObject]
    ELSE Validated(RawSnapshotId(body),
                   ParseInt(ToStr(RawSnapshotId(body))),
                   StringField(body, "author"),
                   StringField(body, "title"),
                   StringField(body, "notes"),
                   BodyItems(body),
                   normalizeItems(BodyItems(body)))

RECURSIVE JsonValue(_)
\* JSON.stringify of a payload value: a number that is not finite is written
\* null, and so is undefined in an array; a key whose value is undefined is
\* left out.
JsonValue(x) ==
    CASE x.t \in {"NaN", "Infinity"} -> Null
      [] x.t = "array" ->
            Arr([i \in DOMAIN x.v |->
                    IF x.v[i].t = "undefined" THEN Null ELSE JsonValue(x.v[i])])
      [] x.t = "object" ->
            Obj([k \in {k \in DOMAIN x.v : x.v[k].t # "undefined"} |->
                    JsonValue(x.v[k])])
      [] OTHER -> x

\* JSON.stringify of a stored item: a key whose value is undefined is left out,
\* a number that is not finite is written null.
JsonItem(item, hp) ==
    Obj([k \in {"id", "analysisId", "label", "score"}
                \cup (IF item.payload.t = "undefined" THEN {} ELSE {"payload"}) |->
            CASE k = "id" -> Num(item.id)
              [] k = "analysisId" -> Num(item.analysisId)
              [] k = "label" -> Str(item.label)
              [] k = "score" -> IF IsFinite(item.score) THEN item.score ELSE Null
              [] k = "payload" -> IF "ref" \in DOMAIN item.payload
                                  THEN Obj(hp[item.payload.ref])
                                  ELSE JsonValue(item.payload)])

\* JSON.stringify of a StoredAnalysis.
JsonAnalysis(analysis, hp) ==
    Obj([k \in {"id", "snapshotId", "author", "title", "createdAt", "items"}
                \cup (IF analysis.notes.t = "undefined" THEN {} ELSE {"notes"}) |->
            CASE k = "id" -> Num(analysis.id)
              [] k = "snapshotId" -> IF IsFinite(analysis.snapshotId)
                                     THEN analysis.snapshotId ELSE Null
              [] k = "author" -> Str(analysis.author)
              [] k = "title" -> Str(analysis.title)
              [] k = "notes" -> analysis.notes
              [] k = "createdAt" -> Str(analysis.createdAt)
              [] k = "items" ->
                    Arr([i \in DOMAIN analysis.items |-> JsonItem(analysis.items[i], hp)])])

RECURSIVE AllocItems(_, _)
\* The items, each payload object of the parsed body put in the heap, in order.
AllocItems(hp, items) ==
    IF items = <<>> THEN [heap |-> hp, items |-> <<>>]
    ELSE LET first == Head(items)
             isObject == first.payload.t = "literal"
             obj == Alloc(hp, IF isObject THEN first.payload.v ELSE <<>>)
             rest == AllocItems(IF isObject THEN obj.heap ELSE hp, Tail(items))
         IN  [heap |-> rest.heap,
              items |-> <<[first EXCEPT !.payload = IF isObject THEN obj.ref ELSE @]>>
                            \o rest.items]

\* The payload objects of the parsed body that reach the store are objects of
\* the heap, one for each; the rest of the parsed body is unreachable once the
\* handler has returned.
AllocPayloads(hp, input) ==
    LET done == AllocItems(hp, input.items.v)
    IN  [heap |-> done.heap, input |-> [input EXCEPT !.items = Arr(done.items)]]

(***************************************************************************)
(* Callers' inputs.                                                        *)
(***************************************************************************)
Author == <<"Q", "A">>
Title == <<"R", "e", "v", "i", "e", "w">>
Tampered == <<"x">>

\* The inputs callers pass to create; "payload" TRUE asks for a payload object.
InputShapes ==
    {[snapshotId |-> Num(-1), notes |-> Undefined, items |-> Undefined],
     [snapshotId |-> Num(0), notes |-> Null, items |-> Arr(<<>>)],
     [snapshotId |-> Num(7), notes |-> Str(<<"n">>),
      items |-> Arr(<<[label |-> <<"a">>, score |-> Num(3), payload |-> TRUE],
                      [label |-> <<"b">>, score |-> Num(-2), payload |-> FALSE]>>)]}

SnapshotIds == {shape.snapshotId : shape \in InputShapes}

RECURSIVE BuildItems(_, _)
\* The items of an input, in order: each payload asked for is a new object.
BuildItems(hp, items) ==
    IF items = <<>> THEN [heap |-> hp, items |-> <<>>]
    ELSE LET first == Head(items)
             obj == Alloc(hp, [k |-> <<"v">>])
             rest == BuildItems(IF first.payload THEN obj.heap ELSE hp, Tail(items))
         IN  [heap |-> rest.heap,
              items |-> <<[label |-> first.label,
                           score |-> first.score,
                           payload |-> IF first.payload THEN obj.ref ELSE Undefined]>>
                            \o rest.items]

\* The caller builds the input object: each payload is a new object literal.
BuildInput(hp, shape) ==
    LET built == IF shape.items.t = "undefined"
                 THEN [heap |-> hp, items |-> <<>>]
                 ELSE BuildItems(hp, shape.items.v)
    IN  [heap |-> built.heap,
         input |->
            [snapshotId |-> shape.snapshotId,
             author |-> Author,
             title |-> Title,
             notes |-> shape.notes,
             items |-> IF shape.items.t = "undefined" THEN Undefined
                       ELSE Arr(built.items)]]

(***************************************************************************)
(* Requests.                                                               *)
(***************************************************************************)
Literal(obj) == [t |-> "literal", v |-> obj]

Queries ==
    {Obj(<<>>),
     Obj([snapshot_id |-> Str(<<"7">>)]),
     Obj([snapshot_id |-> Str(<<"U+000B", "7">>)]),
     Obj([snapshot_id |-> Str(<<"0">>)]),
     Obj([snapshot_id |-> Str(<<"x">>)]),
     Obj([snapshot_id |-> Arr(<<Str(<<"-", "1">>), Str(<<"7">>)>>)])}

RejectedBodies ==
    {Undefined,
     Str(<<"x">>),
     Obj(<<>>),
     Obj([snapshot_id |-> Str(<<"x">>), snapshotId |-> Num(7),
          author |-> Str(Author), title |-> Str(Title)]),
     Obj([snapshot_id |-> Num(7), author |-> Str(<<>>), title |-> Str(Title)]),
     Obj([snapshot_id |-> Num(7), author |-> Str(Author), title |-> Num(5)]),
     Obj([snapshot_id |-> Obj([toString |-> Num(1)]), snapshotId |-> Num(7),
          author |-> Str(Author), title |-> Str(Title)]),
     Obj([snapshot_id |-> Num(7), author |-> Str(Author), title |-> Str(Title),
          items |-> Arr(<<Obj([label |-> Str(<<"a">>), score |-> Num(1)]),
                          Obj([label |-> Str(<<"b">>),
                               score |-> Obj([valueOf |-> Num(1),
                                              toString |-> Num(2)])])>>)])}

AcceptedBodies ==
    {Obj([snapshot_id |-> Str(<<"U+00A0", "\t", " ", "7", "x">>), author |-> Str(Author),
          title |-> Str(Title), notes |-> Str(<<"n">>),
          items |-> Arr(<<
              Obj([label |-> Str(<<"a">>), score |-> Str(<<"3", ".", "5">>),
                   payload |-> Literal([k |-> <<"v">>])]),
              Num(3),
              Obj([label |-> Num(5), score |-> Str(<<"x">>)]),
              Obj([label |-> Str(<<>>), score |-> Num(1)]),
              Obj([label |-> Bool(TRUE), score |-> Arr(<<Num(4)>>),
                   payload |-> Literal([k |-> <<"v">>])]),
              Obj([label |-> Arr(<<Str(<<"a">>), Num(1)>>),
                   score |-> Str(<<"-", ".", "2", "5", "e", "1", "x">>),
                   payload |-> Literal([k |-> <<"w">>])]),
              Obj([label |-> Obj(<<>>),
                   score |-> Str(<<"I", "n", "f", "i", "n", "i", "t", "y">>)]),
              Obj([label |-> Arr(<<>>), score |-> Dec(5, 1)]),
              Obj([label |-> Dec(5, 7), score |-> Str(<<"1", "e", "-", "4", "0", "0">>)]),
              Obj([label |-> Obj([valueOf |-> Num(1)]),
                   score |-> Str(<<"U+FEFF", "3", ".", "5", "0">>)]),
              Obj([label |-> Str(<<"n">>), score |-> Dec(125, 2)]),
              Obj([label |-> Str(<<"r">>),
                   score |-> Str(<<"9", "0", "0", "7", "1", "9", "9", "2", "5", "4",
                                   "7", "4", "0", "9", "9", "3">>)]),
              Obj([label |-> Str(<<"s">>),
                   score |-> Str(<<"3", "e", "-", "3", "2", "4">>)])>>)]),
     Obj([snapshotId |-> Num(-1), author |-> Str(Author), title |-> Str(Title),
          items |-> Arr(<<Obj([score |-> Num(2)]), Null>>)]),
     Obj([snapshot_id |-> Num(0), snapshotId |-> Num(7), author |-> Str(Author),
          title |-> Str(Title), notes |-> Num(1), items |-> Str(<<"a">>)])}

Requests ==
    {[method |-> Str(GET), query |-> q, body |-> Undefined] : q \in Queries}
    \cup {[method |-> Str(POST), query |-> Obj(<<>>), body |-> b] :
            b \in RejectedBodies \cup AcceptedBodies}
    \cup {[method |-> m, query |-> Obj(<<>>), body |-> Undefined] :
            m \in {Str(<<"D", "E", "L", "E", "T", "E">>), Undefined}}

\* normalizeCreatePayload(req.body) for every POST explored, computed once.
Payloads ==
    [req \in {r \in Requests : r.method = Str(POST)} |->
        normalizeCreatePayload(req.body)] @@ <<>>

\* const payload = normalizeCreatePayload(req.body)
Payload(req) ==
    IF req \in DOMAIN Payloads THEN Payloads[req] ELSE normalizeCreatePayload(req.body)

\* handler(req, res) with the process's store st: the response, and the store,
\* heap and clock it leaves.  now1 is the reading taken if the store is made,
\* now2 the reading taken if a record is created.
\* A response that leaves the store as getAnalysisStore() returned it.
Answer(got, clk, response) ==
    [store |-> got.store, heap |-> got.heap, clock |-> clk,
     record |-> Undefined, res |-> response]

\* GET: store.list(snapshotId), answered 200.
AnswerList(got, clk, snapshotId) ==
    [store |-> [got.store EXCEPT !.state = stateAfterList(@, got.heap, snapshotId)],
     heap |-> heapAfterList(got.store.state, got.heap, snapshotId),
     clock |-> clk,
     record |-> Undefined,
     res |-> [status |-> 200,
              body |-> Arr([i \in DOMAIN list(got.store.state, got.heap, snapshotId) |->
                               JsonAnalysis(list(got.store.state, got.heap, snapshotId)[i],
                                            got.heap)])]]

\* POST: store.create(payload), answered 201 with the record, or the Error
\* normalizeCreatePayload threw, answered 400 with its message.
AnswerCreate(got, clk, now2, uuid, payload) ==
    IF payload.threw
    THEN Answer(got, clk, [status |-> 400,
                           body |-> Obj([error |-> Str(payload.message)])])
    ELSE LET parsed == AllocPayloads(got.heap, payload.input)
             made == create(got.store.state, parsed.heap, now2, parsed.input, uuid)
         IN  [store |-> [got.store EXCEPT !.state = made.state],
              heap |-> made.heap,
              clock |-> now2,
              record |-> made.record,
              res |-> [status |-> 201,
                       body |-> JsonAnalysis(made.record, made.heap)]]

handler(req, st, hp, clk, now1, now2, uuid) ==
    LET got == getAnalysisStore(st, now1, hp)
        clk1 == IF st = NoStore THEN now1 ELSE clk
    IN  IF req.method = Str(GET)
        THEN AnswerList(got, clk1, parseSnapshotId(Field(req.query, "snapshot_id")))
        ELSE IF req.method = Str(POST)
        THEN AnswerCreate(got, clk1, now2, uuid, Payload(req))
        ELSE Answer(got, clk1, [status |-> 405,
                                allow |-> AllowedMethods,
                                body |-> Str(MethodNotAllowed)])

\* The arguments of list: none, the ids of the inputs and of the seed, and
\* numbers that are no integer.
ListArgs == {Undefined, Num(101), Dec(7, 1), Infinity(FALSE)} \cup SnapshotIds

\* A record of a handed-over state, with one item unless it has none.
GivenRecord(id, createdAt, items) ==
    [id |-> id,
     snapshotId |-> Num(7),
     author |-> Author,
     title |-> Title,
     notes |-> Undefined,
     createdAt |-> createdAt,
     items |-> items]

\* A record whose optional field is not set.
Without(analysis, name) == [key \in DOMAIN analysis \ {name} |-> analysis[key]]

GivenItem(id, analysisId) ==
    [id |-> id, analysisId |-> analysisId, label |-> <<"a">>, score |-> Num(2),
     payload |-> Undefined]

\* The states callers hand to the constructor, which takes any AnalysisState
\* as it is.  Two are states a store can have had: no record, or a record
\* under its own id with an item of its own, both counters above every id in
\* the map.  Two are not: a record without items, under a key that is not its
\* id, with the Analysis counter at its id and a createdAt the clock may read
\* again; and a record whose item names another owner, with both counters at
\* the ids in the map.  One holds records that lack an optional field: one
\* without createdAt and one without id, beside a record that has both.
InitialStates ==
    {[nextAnalysisId |-> 5, nextItemId |-> 9, analyses |-> <<>>],
     [nextAnalysisId |-> 4,
      nextItemId |-> 6,
      analyses |->
          MapSet(<<>>, 3, GivenRecord(3, <<"0", "5", "Z">>, <<GivenItem(5, 3)>>))],
     [nextAnalysisId |-> 3,
      nextItemId |-> 5,
      analyses |-> MapSet(<<>>, 8, GivenRecord(3, ToISOString(StartClock), <<>>))],
     [nextAnalysisId |-> 3,
      nextItemId |-> 5,
      analyses |->
          MapSet(<<>>, 3, GivenRecord(3, <<"0", "5", "Z">>, <<GivenItem(5, 9)>>))],
     [nextAnalysisId |-> 5,
      nextItemId |-> 6,
      analyses |->
          MapSet(MapSet(MapSet(<<>>,
                               4, Without(GivenRecord(4, <<"0", "5", "Z">>, <<>>), "id")),
                        2, GivenRecord(2, <<"0", "5", "Z">>, <<GivenItem(5, 2)>>)),
                 3, Without(GivenRecord(3, <<"0", "5", "Z">>, <<>>), "createdAt"))]}

\* initialState.analyses.clear(), by the caller of new
\* AnalysisStore(initialState) on the state object it handed over.
ClearAnalyses(st) == [st EXCEPT !.analyses = <<>>]

(***************************************************************************)
(* Handler invocations.  A request that has arrived waits until the event  *)
(* loop runs its handler; the handler, list and create have no await, so an*)
(* invocation runs from its first statement to its return before the event *)
(* loop runs another.  The statements of create are separate steps, and a  *)
(* counter's post-increment is a read followed by a write.                 *)
(***************************************************************************)
Procs == 1..MaxRequests

Idle ==
    [pc |-> "idle", op |-> "none", input |-> Undefined, arg |-> Undefined,
     id |-> 0, itemId |-> 0, analysis |-> Undefined, result |-> <<>>]

\* Mutant: the event loop starts a handler while another is in the middle of a call.
CallStackIgnored == TRUE

\* No handler invocation is on the call stack.
CallStackEmpty == \A p \in Procs : frames[p].pc \in {"idle", "pending", "done"}

\* Where create goes after a statement of its item loop: to the next input
\* item, to the placeholder, or to the map insertion.
AfterPush(input, analysis) ==
    IF Len(analysis.items) < Len(Nullish(input.items, Arr(<<>>)).v)
    THEN "readItemId"
    ELSE IF NeedsPlaceholder(analysis.items) THEN "readPlaceholderId"
    ELSE "set"

(***************************************************************************)
(* Actions.                                                                *)
(***************************************************************************)
Init ==
    /\ clock = StartClock
    /\ store = NoStore
    /\ heap = <<>>
    /\ call = [op |-> "none"]
    /\ ret = <<>>
    /\ created = <<>>
    /\ res = NoResponse
    /\ frames = [p \in Procs |-> Idle]
    /\ given = Undefined

\* new Date(): the wall clock is read.  A reading may be earlier than the one
\* before it (the wall clock can be set back).
Readings == StartClock..MaxClock

\* getGlobalStore() on first access: the store is made and kept.
Construct ==
    /\ store = NoStore
    /\ \E now \in Readings :
        \E new \in {NewStore(Undefined, now, heap)} :
            /\ clock' = now
            /\ store' = new.store
            /\ heap' = new.heap
    /\ call' = [op |-> "construct"]
    /\ ret' = <<>>
    /\ UNCHANGED <<created, res, frames, given>>

\* new AnalysisStore(initialState): a store is made from a state its caller
\* hands over; no clock is read and nothing is seeded.  The store's state is
\* the caller's object, not a copy of it; given keeps what it held when it was
\* handed over.
ConstructGiven ==
    /\ store = NoStore
    /\ \E initialState \in InitialStates :
        \E new \in {NewStore(Obj(initialState), clock, heap)} :
            /\ store' = new.store
            /\ heap' = new.heap
            /\ given' = Obj(initialState)
    /\ call' = [op |-> "construct"]
    /\ ret' = <<>>
    /\ UNCHANGED <<clock, created, res, frames>>

\* The caller that handed its state object to the constructor writes into it:
\* the object is the store's state, so the write is one to the store's state.
MutateGiven ==
    /\ given # Undefined
    /\ store' = [store EXCEPT !.state = ClearAnalyses(@)]
    /\ call' = [op |-> "mutateGiven"]
    /\ UNCHANGED <<clock, heap, ret, created, res, frames, given>>

\* store.list(snapshotId)
List ==
    /\ store # NoStore
    /\ \E snapshotId \in ListArgs :
        /\ ret' = list(store.state, heap, snapshotId)
        /\ store' = [store EXCEPT !.state = stateAfterList(@, heap, snapshotId)]
        /\ heap' = heapAfterList(store.state, heap, snapshotId)
        /\ call' = [op |-> "list", snapshotId |-> snapshotId]
    /\ UNCHANGED <<clock, created, res, frames, given>>

\* store.create(input)
Create ==
    /\ store # NoStore
    /\ Len(created) < MaxCreates
    /\ \E shape \in InputShapes, uuid \in UUIDs(heap), now \in Readings :
        \E built \in {BuildInput(heap, shape)} :
            \E made \in {create(store.state, built.heap, now, built.input, uuid)} :
                /\ clock' = now
                /\ store' = [store EXCEPT !.state = made.state]
                /\ heap' = made.heap
                /\ ret' = <<made.record>>
                /\ call' = [op |-> "create", input |-> built.input]
                /\ created' = Append(created, Deep(made.record, made.heap))
    /\ UNCHANGED <<res, frames, given>>

Returned == call.op \in {"list", "create"}

Bogus == [id |-> 0, analysisId |-> 0, label |-> Tampered, score |-> Num(99),
          payload |-> Undefined]

\* The caller writes into its own copy of a record it was returned: it overwrites
\* top-level fields and the fields of every item, and pushes onto the items array.
MutateCopy ==
    /\ Returned
    /\ \E k \in DOMAIN ret :
        ret' = [ret EXCEPT ![k] =
                    [SetProp(@, "id", 0) EXCEPT
                              !.snapshotId = Num(0), !.title = Tampered,
                              !.items = Append(
                                  [j \in DOMAIN @ |->
                                      [@[j] EXCEPT !.analysisId = 0,
                                                   !.label = Tampered,
                                                   !.score = Num(99)]],
                                  Bogus)]]
    /\ call' = [op |-> "mutate", what |-> "copy"]
    /\ UNCHANGED <<clock, store, heap, created, res, frames, given>>

\* The caller writes into the payload object of an item it was returned.
MutatePayload ==
    /\ Returned
    /\ \E k \in DOMAIN ret :
        \E j \in DOMAIN ret[k].items :
            /\ ret[k].items[j].payload.t = "object"
            /\ heap' = [heap EXCEPT ![ret[k].items[j].payload.ref] =
                            SetProp(@, "tampered", Tampered)]
    /\ call' = [op |-> "mutate", what |-> "payload"]
    /\ UNCHANGED <<clock, store, ret, created, res, frames, given>>

\* After create has returned, the caller writes into the input object it
\* passed: it overwrites top-level fields and the fields of every input item,
\* and pushes onto the items array (making one if it passed none).
MutateInput ==
    /\ call.op = "create"
    /\ call' = [op |-> "mutateInput",
                what |-> "fields",
                input |-> [call.input EXCEPT
                              !.snapshotId = Num(0),
                              !.title = Tampered,
                              !.items = Arr(Append(
                                  [j \in DOMAIN Nullish(@, Arr(<<>>)).v |->
                                      [Nullish(@, Arr(<<>>)).v[j] EXCEPT
                                          !.label = Tampered, !.score = Num(99)]],
                                  [label |-> Tampered, score |-> Num(99),
                                   payload |-> Undefined]))]]
    /\ UNCHANGED <<clock, store, heap, ret, created, res, frames, given>>

\* After create has returned, the caller writes into the payload object of an
\* item of the input it passed.
MutateInputPayload ==
    /\ call.op \in {"create", "mutateInput"}
    /\ call.input.items.t = "array"
    /\ \E j \in DOMAIN call.input.items.v :
        /\ call.input.items.v[j].payload.t = "object"
        /\ heap' = [heap EXCEPT ![call.input.items.v[j].payload.ref] =
                        SetProp(@, "tampered", Tampered)]
    /\ call' = [op |-> "mutateInput", what |-> "payload", input |-> call.input]
    /\ UNCHANGED <<clock, store, ret, created, res, frames, given>>

\* The requests that make the handler call create.
CreatingRequests == {req \in DOMAIN Payloads : ~Payloads[req].threw}

\* The request makes the handler call create.
Creates(req) == req \in CreatingRequests

\* The handler answers a request.  (A reading is taken only where the code
\* reads the clock, and a UUID only where it may make one: when the store is
\* made and when a record is created.)
Request ==
    \E req \in Requests, now1 \in Readings, creates \in BOOLEAN :
        /\ creates = Creates(req)
        /\ Constructed(store) => now1 = clock
        /\ creates => Len(created) < MaxCreates
        /\ \E now2 \in IF creates THEN Readings ELSE {now1},
              uuid \in IF creates THEN UUIDs(heap) ELSE {<<>>} :
            \E out \in {handler(req, store, heap, clock, now1, now2, uuid)} :
                /\ store' = out.store
                /\ heap' = out.heap
                /\ clock' = out.clock
                /\ res' = out.res
                /\ call' = [op |-> "request", req |-> req, before |-> store]
                /\ created' = IF out.res.status = 201
                              THEN Append(created, Deep(out.record, out.heap))
                              ELSE created
                /\ UNCHANGED <<ret, frames, given>>

\* The inputs normalizeCreatePayload returns: notes is the body's string or
\* undefined, items is an array.
PostedShapes ==
    {[shape EXCEPT !.notes = IF @.t = "string" THEN @ ELSE Undefined] :
        shape \in {shape \in InputShapes : shape.items.t # "undefined"}}

\* A POST arrives, with items or with none; its parsed input waits for the
\* handler to run.
ArriveCreate ==
    /\ \E p \in Procs, shape \in PostedShapes :
        \E built \in {BuildInput(heap, shape)} :
            /\ frames[p].pc = "idle"
            /\ p > 1 => frames[p - 1].pc # "idle"
            /\ heap' = built.heap
            /\ frames' = [frames EXCEPT ![p] =
                              [@ EXCEPT !.pc = "pending", !.op = "create",
                                        !.input = built.input]]
    /\ UNCHANGED <<clock, store, call, ret, created, res, given>>

\* A GET arrives, unfiltered or for the snapshot of the records that carry items.
ArriveList ==
    /\ \E p \in Procs, snapshotId \in {Undefined, Num(7)} :
        /\ frames[p].pc = "idle"
        /\ p > 1 => frames[p - 1].pc # "idle"
        /\ frames' = [frames EXCEPT ![p] =
                          [@ EXCEPT !.pc = "pending", !.op = "list",
                                    !.arg = snapshotId]]
    /\ UNCHANGED <<clock, store, heap, call, ret, created, res, given>>

\* The event loop runs the handler of the request that has waited longest: it
\* gets the store and enters list or create.
Dispatch ==
    /\ CallStackEmpty
    /\ \E p \in Procs, now \in Readings :
        \E got \in {getAnalysisStore(store, now, heap)} :
            /\ frames[p].pc = "pending"
            /\ \A q \in 1..(p - 1) : frames[q].pc # "pending"
            /\ Constructed(store) => now = clock
            /\ clock' = now
            /\ store' = got.store
            /\ heap' = got.heap
            /\ frames' = [frames EXCEPT ![p].pc =
                              IF frames[p].op = "create" THEN "readAnalysisId"
                              ELSE "list"]
    /\ UNCHANGED <<call, ret, created, res, given>>

\* const id = this.state.nextAnalysisId++ : the counter is read.
ReadAnalysisId ==
    /\ \E p \in Procs :
        /\ frames[p].pc = "readAnalysisId"
        /\ frames' = [frames EXCEPT ![p] =
                          [@ EXCEPT !.pc = "writeAnalysisId",
                                    !.id = store.state.nextAnalysisId]]
    /\ UNCHANGED <<clock, store, heap, call, ret, created, res, given>>

\* ... and written; createdAt is taken and the record is built with no items.
WriteAnalysisId ==
    /\ \E p \in Procs, now \in Readings :
        LET analysis ==
                [id |-> frames[p].id,
                 snapshotId |-> frames[p].input.snapshotId,
                 author |-> frames[p].input.author,
                 title |-> frames[p].input.title,
                 notes |-> Nullish(frames[p].input.notes, Undefined),
                 createdAt |-> ToISOString(now),
                 items |-> <<>>]
        IN  /\ frames[p].pc = "writeAnalysisId"
            /\ clock' = now
            /\ store' = [store EXCEPT !.state.nextAnalysisId =
                                          PostIncrement(frames[p].id)]
            /\ frames' = [frames EXCEPT ![p] =
                              [@ EXCEPT !.pc = AfterPush(frames[p].input, analysis),
                                        !.analysis = analysis]]
    /\ UNCHANGED <<heap, call, ret, created, res, given>>

\* this.state.nextItemId++ : the counter is read, for an input item or for the
\* placeholder.
ReadItemId ==
    /\ \E p \in Procs :
        /\ frames[p].pc \in {"readItemId", "readPlaceholderId"}
        /\ frames' = [frames EXCEPT ![p] =
                          [@ EXCEPT !.pc = IF frames[p].pc = "readItemId"
                                           THEN "pushItem" ELSE "pushPlaceholder",
                                    !.itemId = store.state.nextItemId]]
    /\ UNCHANGED <<clock, store, heap, call, ret, created, res, given>>

\* ... and written; the item made of the next input item is pushed.
PushItem ==
    /\ \E p \in Procs :
        LET items == Nullish(frames[p].input.items, Arr(<<>>)).v
            analysis ==
                [frames[p].analysis EXCEPT !.items =
                    Append(@, pushItem(frames[p].itemId, frames[p].id,
                                       items[Len(@) + 1]))]
        IN  /\ frames[p].pc = "pushItem"
            /\ store' = [store EXCEPT !.state.nextItemId =
                                          PostIncrement(frames[p].itemId)]
            /\ frames' = [frames EXCEPT ![p] =
                              [@ EXCEPT !.pc = AfterPush(frames[p].input, analysis),
                                        !.analysis = analysis]]
    /\ UNCHANGED <<clock, heap, call, ret, created, res, given>>

\* ... and written; the placeholder item is pushed.
PushPlaceholder ==
    /\ \E p \in Procs, uuid \in UUIDs(heap) :
        \E placeholder \in {Alloc(heap, [id |-> uuid, message |-> PlaceholderMessage])} :
            /\ frames[p].pc = "pushPlaceholder"
            /\ store' = [store EXCEPT !.state.nextItemId =
                                          PostIncrement(frames[p].itemId)]
            /\ heap' = placeholder.heap
            /\ frames' = [frames EXCEPT ![p] =
                              [@ EXCEPT !.pc = "set",
                                        !.analysis.items =
                                            Append(@, [id |-> frames[p].itemId,
                                                       analysisId |-> frames[p].id,
                                                       label |-> PlaceholderLabel,
                                                       score |-> Num(0),
                                                       payload |-> placeholder.ref])]]
    /\ UNCHANGED <<clock, call, ret, created, res, given>>

\* this.state.analyses.set(id, analysis)
SetAnalysis ==
    /\ \E p \in Procs :
        /\ frames[p].pc = "set"
        /\ store' = [store EXCEPT !.state.analyses =
                                      MapSet(@, frames[p].id, frames[p].analysis)]
        /\ frames' = [frames EXCEPT ![p].pc = "return"]
    /\ UNCHANGED <<clock, heap, call, ret, created, res, given>>

\* return cloneAnalysis(analysis); the handler answers and is done.
ReturnCreate ==
    /\ \E p \in Procs :
        /\ frames[p].pc = "return"
        /\ \E record \in {cloneAnalysis(frames[p].analysis)} :
            /\ frames' = [frames EXCEPT ![p] =
                              [@ EXCEPT !.pc = "done", !.result = <<record>>]]
            /\ created' = Append(created, Deep(record, heap))
    /\ UNCHANGED <<clock, store, heap, call, ret, res, given>>

\* store.list(snapshotId) and its return; the handler answers and is done.
ListAndReturn ==
    /\ \E p \in Procs :
        /\ frames[p].pc = "list"
        /\ frames' = [frames EXCEPT ![p] =
                          [@ EXCEPT !.pc = "done",
                                    !.result = list(store.state, heap, frames[p].arg)]]
        /\ store' = [store EXCEPT !.state = stateAfterList(@, heap, frames[p].arg)]
        /\ heap' = heapAfterList(store.state, heap, frames[p].arg)
    /\ UNCHANGED <<clock, call, ret, created, res, given>>

Next ==
    \/ Construct
    \/ List
    \/ Create
    \/ MutateCopy
    \/ MutatePayload

Spec == Init /\ [][Next]_vars

\* The store under create and list calls alone, made by new AnalysisStore() or
\* from a state handed to the constructor, which its caller may write into.
NextCalls ==
    \/ Construct
    \/ ConstructGiven
    \/ MutateGiven
    \/ List
    \/ Create

SpecCalls == Init /\ [][NextCalls]_vars

\* The store under create and list calls and a caller that writes into the
\* inputs it passed.
NextInput ==
    \/ Construct
    \/ List
    \/ Create
    \/ MutateInput
    \/ MutateInputPayload

SpecInput == Init /\ [][NextInput]_vars

\* The store behind handler invocations of requests that arrive concurrently.
NextConcurrent ==
    \/ ArriveCreate
    \/ ArriveList
    \/ Dispatch
    \/ ReadAnalysisId
    \/ WriteAnalysisId
    \/ ReadItemId
    \/ PushItem
    \/ PushPlaceholder
    \/ SetAnalysis
    \/ ReturnCreate
    \/ ListAndReturn

SpecConcurrent == Init /\ [][NextConcurrent]_vars

\* The store behind the API handler.
NextApi == Request

SpecApi == Init /\ [][NextApi]_vars

(***************************************************************************)
(* Views used by the properties.                                           *)
(***************************************************************************)

\* The records in the store, in insertion order.
Stored == IF Constructed(store) THEN MapValues(store.state.analyses) ELSE <<>>

\* What an unfiltered list() call returns, as its reader sees it.
DeepList ==
    IF Constructed(store)
    THEN LET l == list(store.state, heap, Undefined)
         IN  [k \in DOMAIN l |-> Deep(l[k], heap)]
    ELSE <<>>

DigitValue(c) == CHOOSE d \in 0..9 : Digits[d + 1] = c

\* The instant a createdAt string denotes.
Instant(createdAt) == DigitValue(createdAt[1]) * 10 + DigitValue(createdAt[2])

HasId(record) == "id" \in DOMAIN record

\* The record has this id.
IdIs(record, id) == HasId(record) /\ record.id = id

\* The instant a record was created at; a record without createdAt counts as
\* created before every instant.
CreatedAt(record) ==
    IF "createdAt" \in DOMAIN record THEN Instant(record.createdAt) ELSE -1

\* The id a record is ordered by; a record without id counts as having id 0.
OrderId(record) == IF HasId(record) THEN record.id ELSE 0

RECURSIVE ItemIdsOf(_)
\* The item ids of a sequence of records, in order.
ItemIdsOf(records) ==
    IF records = <<>> THEN <<>>
    ELSE [i \in DOMAIN Head(records).items |-> Head(records).items[i].id]
         \o ItemIdsOf(Tail(records))

StrictlyIncreasing(ids) == \A i, j \in DOMAIN ids : i < j => ids[i] < ids[j]

\* The records the store was constructed with: the seed, or those of the state
\* handed to the constructor.
InitialRecords ==
    IF given = Undefined
    THEN <<[id |-> 1, items |-> <<[id |-> 1]>>]>>
    ELSE MapValues(given.v.analyses)

InitialIds ==
    {InitialRecords[r].id : r \in {r \in DOMAIN InitialRecords : HasId(InitialRecords[r])}}

InitialItemIds ==
    UNION {{InitialRecords[r].items[i].id : i \in DOMAIN InitialRecords[r].items} :
              r \in DOMAIN InitialRecords}

(***************************************************************************)
(* C1: after list(s) with an integer s, the result holds only records whose*)
(* snapshotId is s, and every stored record whose snapshotId is s (so it is*)
(* empty when none matches).                                               *)
(***************************************************************************)
C1_ListFiltersBySnapshot ==
    (call.op = "list" /\ call.snapshotId.t = "number"
        /\ "scale" \notin DOMAIN call.snapshotId) =>
        /\ \A k \in DOMAIN ret : ret[k].snapshotId = call.snapshotId
        /\ \A i \in DOMAIN Stored :
              Stored[i].snapshotId = call.snapshotId =>
                  \E k \in DOMAIN ret : ret[k] = Stored[i]

(***************************************************************************)
(* C2: a caller's mutation of a record it was returned (its fields, its    *)
(* items array, an item's fields, the contents of an item's payload) leaves*)
(* what list() returns as it was.                                          *)
(***************************************************************************)
C2_MutationIsolated == [][call'.op = "mutate" => DeepList' = DeepList]_vars

\* The Analysis ids create has returned are strictly increasing in call order
\* and above the id of every record the store was constructed with; so are the
\* item ids it has assigned, above those records' item ids.
IdsIncrease ==
    /\ StrictlyIncreasing([i \in DOMAIN created |-> created[i].id])
    /\ StrictlyIncreasing(ItemIdsOf(created))
    /\ \A c \in DOMAIN created :
          /\ \A id \in InitialIds : created[c].id > id
          /\ \A i \in DOMAIN created[c].items :
                \A id \in InitialItemIds : created[c].items[i].id > id

(***************************************************************************)
(* C3 as stated: on a freshly constructed store, the Analysis ids create    *)
(* returns are strictly increasing in call order and above the id of every *)
(* record the store was constructed with (the seed's id 1); so are the item*)
(* ids it assigns, above those records' item ids (the seed item's id 1);   *)
(* hence no id is issued twice.                                            *)
(***************************************************************************)
C3_AsStated == IdsIncrease

(***************************************************************************)
(* C3 as amended: on a store constructed without an initial state, the     *)
(* Analysis ids create returns are strictly increasing in call order and   *)
(* above the seed's id 1; so are the item ids it assigns, above the seed   *)
(* item's id 1; hence no id is issued twice.                               *)
(***************************************************************************)
C3_IdsStrictlyIncrease == given = Undefined => IdsIncrease

C3_Witness ==
    /\ given = Undefined
    /\ Len(created) = 2
    /\ Len(created[1].items) = 2
    /\ Len(created[2].items) = 1

\* create with items omitted or empty has returned a record with exactly one
\* item, labelled "auto-generated" with score 0.
PlaceholderAlone ==
    (call.op = "create" /\ Nullish(call.input.items, Arr(<<>>)).v = <<>>) =>
        /\ Len(ret[1].items) = 1
        /\ ret[1].items[1].label = PlaceholderLabel
        /\ ret[1].items[1].score = Num(0)

(***************************************************************************)
(* C4 as stated: create with items omitted or empty returns a record with  *)
(* exactly one item, labelled "auto-generated" with score 0; every stored  *)
(* Analysis has at least one item.                                         *)
(***************************************************************************)
C4_AsStated ==
    /\ PlaceholderAlone
    /\ \A i \in DOMAIN Stored : Len(Stored[i].items) >= 1

(***************************************************************************)
(* C4 as amended: create with items omitted or empty returns a record with *)
(* exactly one item, labelled "auto-generated" with score 0; in a store    *)
(* constructed without an initial state every stored Analysis has at least *)
(* one item.                                                               *)
(***************************************************************************)
C4_PlaceholderRule ==
    /\ PlaceholderAlone
    /\ given = Undefined => \A i \in DOMAIN Stored : Len(Stored[i].items) >= 1

C4_Witness ==
    /\ given = Undefined
    /\ Len(created) = 2
    /\ call.op = "create"
    /\ call.input.items = Undefined
    /\ \E i \in DOMAIN Stored : Len(Stored[i].items) = 2

(***************************************************************************)
(* C5 as stated: list() is ordered by createdAt, latest first, and by id,  *)
(* largest first, among equal createdAt; of two records with distinct      *)
(* createdAt the later-created one (the one with the larger id) comes      *)
(* first.                                                                  *)
(***************************************************************************)
C5_AsStated ==
    call.op = "list" =>
        \A i, j \in DOMAIN ret :
            /\ i < j =>
                  \/ CreatedAt(ret[i]) > CreatedAt(ret[j])
                  \/ /\ CreatedAt(ret[i]) = CreatedAt(ret[j])
                     /\ OrderId(ret[i]) > OrderId(ret[j])
            /\ (CreatedAt(ret[i]) # CreatedAt(ret[j]) /\ OrderId(ret[i]) > OrderId(ret[j]))
                  => i < j

(***************************************************************************)
(* C5: list() is ordered by createdAt, latest first, and by id, largest    *)
(* first, among equal createdAt (two records of one id and one createdAt,  *)
(* which a handed-over state can hold, have no larger one); of two records *)
(* with distinct createdAt the one with the later createdAt comes first,   *)
(* which is the later-created one (the one with the larger id) when the    *)
(* clock did not read earlier at its creation, and the earlier-created one *)
(* when it did.  A record that lacks createdAt is ordered as created       *)
(* before every instant, one that lacks id as having id 0.                 *)
(***************************************************************************)
C5_ListOrder ==
    call.op = "list" =>
        \A i, j \in DOMAIN ret :
            /\ i < j =>
                  \/ CreatedAt(ret[i]) > CreatedAt(ret[j])
                  \/ /\ CreatedAt(ret[i]) = CreatedAt(ret[j])
                     /\ OrderId(ret[i]) >= OrderId(ret[j])
            /\ OrderId(ret[i]) > OrderId(ret[j]) =>
                  (i < j <=> CreatedAt(ret[i]) >= CreatedAt(ret[j]))

C5_Witness ==
    /\ call.op = "list"
    /\ Len(ret) = 3
    /\ CreatedAt(ret[1]) # CreatedAt(ret[2])
    /\ CreatedAt(ret[2]) = CreatedAt(ret[3])
    /\ OrderId(ret[1]) > OrderId(ret[2])
    /\ OrderId(ret[2]) > OrderId(ret[3])

(***************************************************************************)
(* The seed alone: one record with id 1, snapshotId 101, author "System", a*)
(* title containing "Initial", and one item with id 1, label               *)
(* "deployment-status", score 1.                                           *)
(***************************************************************************)
SeedAlone ==
    /\ Len(ret) = 1
    /\ IdIs(ret[1], 1)
    /\ ret[1].snapshotId = Num(101)
    /\ ret[1].author = <<"S", "y", "s", "t", "e", "m">>
    /\ Includes(ret[1].title, <<"I", "n", "i", "t", "i", "a", "l">>)
    /\ Len(ret[1].items) = 1
    /\ ret[1].items[1].id = 1
    /\ ret[1].items[1].label =
          <<"d", "e", "p", "l", "o", "y", "m", "e", "n", "t", "-", "s", "t",
            "a", "t", "u", "s">>
    /\ ret[1].items[1].score = Num(1)

(***************************************************************************)
(* C6 as stated: list() on a constructed store on which create was never   *)
(* called returns the seed alone.                                          *)
(***************************************************************************)
C6_AsStated ==
    (call.op = "list" /\ call.snapshotId = Undefined /\ created = <<>>) => SeedAlone

(***************************************************************************)
(* C6 as amended: list() on a store that was constructed without an initial*)
(* state, and on which create was never called, returns the seed alone; on *)
(* a store that was constructed from an initial state it returns the       *)
(* records of that state, one entry for each (those handed over, or none   *)
(* once the caller has cleared the state it handed over).                  *)
(***************************************************************************)
C6_Seed ==
    (call.op = "list" /\ call.snapshotId = Undefined /\ created = <<>>) =>
        IF given = Undefined
        THEN SeedAlone
        ELSE /\ store.state.analyses \in {given.v.analyses, <<>>}
             /\ Len(ret) = Len(Stored)
             /\ \A i \in DOMAIN Stored : \E k \in DOMAIN ret : ret[k] = Stored[i]

C6_Witness ==
    /\ call.op = "list"
    /\ call.snapshotId = Undefined
    /\ created = <<>>
    /\ given = Undefined
    /\ Len(ret) = 1

\* Every record create has returned is in an unfiltered list() exactly once,
\* with the snapshotId, author, title, createdAt and items it was returned
\* with.
CreatedStay ==
    \A c \in DOMAIN created :
        /\ Cardinality({k \in DOMAIN DeepList : IdIs(DeepList[k], created[c].id)}) = 1
        /\ \A k \in DOMAIN DeepList :
              IdIs(DeepList[k], created[c].id) =>
                  /\ DeepList[k].snapshotId = created[c].snapshotId
                  /\ DeepList[k].author = created[c].author
                  /\ DeepList[k].title = created[c].title
                  /\ DeepList[k].createdAt = created[c].createdAt
                  /\ DeepList[k].items = created[c].items

(***************************************************************************)
(* C7 as stated: under create and list calls, every record create has      *)
(* returned is in every later unfiltered list() exactly once, with the     *)
(* snapshotId, author, title, createdAt and items it was returned with.    *)
(***************************************************************************)
C7_AsStated == CreatedStay

(***************************************************************************)
(* C7 as amended: in a store constructed without an initial state, under   *)
(* create and list calls, every record create has returned is in every     *)
(* later unfiltered list() exactly once, with the snapshotId, author,      *)
(* title, createdAt and items it was returned with.                        *)
(***************************************************************************)
C7_CreatedRecordsStay == given = Undefined => CreatedStay

C7_Witness ==
    /\ given = Undefined
    /\ Len(created) = 2
    /\ call.op = "list"
    /\ call.snapshotId = Undefined
    /\ Len(ret) = 3

\* Every item of every stored Analysis has the analysisId of the Analysis that
\* holds it, and every Analysis is stored under its own id.
OwnedAndKeyed ==
    Constructed(store) =>
        \A e \in DOMAIN store.state.analyses :
            LET entry == store.state.analyses[e]
            IN  /\ IdIs(entry.value, entry.key)
                /\ \A i \in DOMAIN entry.value.items :
                      IdIs(entry.value, entry.value.items[i].analysisId)

(***************************************************************************)
(* C8 as stated: in every state of a store, every item of every stored     *)
(* Analysis has the analysisId of the Analysis that holds it, and every    *)
(* Analysis is stored under its own id.                                    *)
(***************************************************************************)
C8_AsStated == OwnedAndKeyed

(***************************************************************************)
(* C8 as amended: in every state of a store constructed without an initial *)
(* state, every item of every stored Analysis has the analysisId of the    *)
(* Analysis that holds it, and every Analysis is stored under its own id.  *)
(***************************************************************************)
C8_ItemsBelongToOwner == given = Undefined => OwnedAndKeyed

C8_Witness ==
    /\ given = Undefined
    /\ Len(Stored) = 3
    /\ \E i \in DOMAIN Stored : Len(Stored[i].items) = 2
    /\ \E i \in DOMAIN Stored : Stored[i].items[1].label = PlaceholderLabel

(***************************************************************************)
(* Views of requests and responses.                                        *)
(***************************************************************************)
\* A value that, written as a string, starts (after white space and an optional
\* sign) with a decimal digit.
IntegerParsable(x) ==
    LET chars == ToStr(x)
    IN  ~StringThrows(x) /\ \E i \in DOMAIN chars :
            /\ IsDigit(chars[i])
            /\ \A j \in 1..(i - 1) :
                  chars[j] \in WhiteSpace \/ (j = i - 1 /\ chars[j] \in {"+", "-"})

NonEmptyString(x) == x.t = "string" /\ Len(x.v) > 0

Answered400 ==
    /\ res.status = 400
    /\ res.body.t = "object"
    /\ DOMAIN res.body.v = {"error"}
    /\ NonEmptyString(res.body.v.error)

Answered405 ==
    /\ res.status = 405
    /\ "allow" \in DOMAIN res
    /\ res.allow = <<"G", "E", "T", ",", " ", "P", "O", "S", "T">>

\* The store is what it was before the request; if the request was the first
\* access, it is the store as constructed: the seed alone, both counters at 2.
StoreAsBefore ==
    IF Constructed(call.before)
    THEN store = call.before
    ELSE /\ Constructed(store)
         /\ store.state.nextAnalysisId = 2
         /\ store.state.nextItemId = 2
         /\ Len(Stored) = 1
         /\ Stored[1].id = 1

(***************************************************************************)
(* C9 as stated: a POST whose body lacks an integer-parsable snapshot_id, a*)
(* non-empty string author or a non-empty string title is answered 400 with*)
(* an error message; a method other than GET and POST is answered 405 with *)
(* Allow: GET, POST; a rejected request leaves the store's records and     *)
(* counters as they were.                                                  *)
(***************************************************************************)
C9_AsStated ==
    call.op = "request" =>
        /\ (/\ call.req.method = Str(POST)
            /\ \/ ~IntegerParsable(Field(call.req.body, "snapshot_id"))
               \/ ~NonEmptyString(Field(call.req.body, "author"))
               \/ ~NonEmptyString(Field(call.req.body, "title")))
              => Answered400
        /\ call.req.method \notin {Str(GET), Str(POST)} => Answered405
        /\ res.status \in {400, 405} => StoreAsBefore

(***************************************************************************)
(* C9 as amended: the snapshot id is read from snapshot_id or, when that is*)
(* absent or null, from snapshotId; a POST whose body has no integer-      *)
(* parsable value there, or lacks a non-empty string author or title, is   *)
(* answered 400 with an error message; a method other than GET and POST is *)
(* answered 405 with Allow: GET, POST; a rejected request leaves the       *)
(* store's records and counters as they were.                              *)
(***************************************************************************)
C9_RejectedNeverReachesCore ==
    call.op = "request" =>
        /\ (/\ call.req.method = Str(POST)
            /\ \/ ~IntegerParsable(Nullish(Field(call.req.body, "snapshot_id"),
                                            Field(call.req.body, "snapshotId")))
               \/ ~NonEmptyString(Field(call.req.body, "author"))
               \/ ~NonEmptyString(Field(call.req.body, "title")))
              => Answered400
        /\ call.req.method \notin {Str(GET), Str(POST)} => Answered405
        /\ res.status \in {400, 405} => StoreAsBefore

C9_Witness ==
    /\ call.op = "request"
    /\ call.req.method = Str(POST)
    /\ NonEmptyString(Field(call.req.body, "title"))
    /\ ~NonEmptyString(Field(call.req.body, "author"))
    /\ res.status = 400
    /\ Len(created) = 1
    /\ Len(Stored) = 2

(***************************************************************************)
(* C10: every record of a GET response carries its grouping key in a field *)
(* named snapshot_id, its timestamp in a field named created_at, and an    *)
(* items array.                                                            *)
(***************************************************************************)
C10_WireSchemaSnakeCase ==
    (call.op = "request" /\ call.req.method = Str(GET)) =>
        /\ res.status = 200
        /\ res.body.t = "array"
        /\ \A i \in DOMAIN res.body.v :
              /\ res.body.v[i].t = "object"
              /\ {"snapshot_id", "created_at", "items"} \subseteq DOMAIN res.body.v[i].v
              /\ res.body.v[i].v.items.t = "array"

(***************************************************************************)
(* C13: a list call, filtered or not, leaves the record mapping, every     *)
(* stored record (payload objects included) and both id counters as they   *)
(* were; a list call that follows a list call with the same argument       *)
(* returns an equal result.                                                *)
(***************************************************************************)
C13_ListIsPureRead ==
    [][call'.op = "list" =>
          /\ store' = store
          /\ heap' = heap
          /\ (call.op = "list" /\ call.snapshotId = call'.snapshotId) => ret' = ret]_vars

C13_Witness ==
    /\ call.op = "list"
    /\ call.snapshotId = Num(7)
    /\ Len(ret) = 1
    /\ Len(Stored) = 3
    /\ store.state.nextAnalysisId = 4

(***************************************************************************)
(* C14: create called with k >= 1 input items returns a record with exactly*)
(* k items, the i-th carrying the label, score and payload of the i-th     *)
(* input item (so none is the placeholder), with item ids strictly         *)
(* increasing in input order; the call advances the Analysis counter by 1  *)
(* and the item counter by k, or by 1 when k = 0.                          *)
(***************************************************************************)
C14_CreateKeepsInputItems ==
    [][call'.op = "create" =>
          LET items == Nullish(call'.input.items, Arr(<<>>)).v
              k == Len(items)
              record == ret'[1]
          IN  /\ store'.state.nextAnalysisId = store.state.nextAnalysisId + 1
              /\ store'.state.nextItemId =
                    store.state.nextItemId + (IF k = 0 THEN 1 ELSE k)
              /\ k >= 1 =>
                    /\ Len(record.items) = k
                    /\ \A i \in 1..k :
                          /\ record.items[i].label = items[i].label
                          /\ record.items[i].score = items[i].score
                          /\ record.items[i].payload = items[i].payload
                    /\ StrictlyIncreasing([i \in 1..k |-> record.items[i].id])]_vars

C14_Witness ==
    /\ call.op = "create"
    /\ call.input.items.t = "array"
    /\ Len(call.input.items.v) = 2
    /\ Len(ret[1].items) = 2
    /\ ret[1].items[1].payload.t = "object"
    /\ store.state.nextAnalysisId = 4
    /\ store.state.nextItemId = 5

(***************************************************************************)
(* Views of a POST body's items.                                           *)
(***************************************************************************)
\* The entries of the body's items, if that is an array.

RECURSIVE EmptyLabel(_)
\* The label is empty or missing after coercion: it is absent or null, the
\* empty string, or an array that joins to the empty string (one with no
\* element, or with one element that is itself empty).
EmptyLabel(label) ==
    CASE label.t \in {"undefined", "null"} -> TRUE
      [] label.t = "string" -> label.v = <<>>
      [] label.t = "array" ->
            label.v = <<>> \/ (Len(label.v) = 1 /\ EmptyLabel(label.v[1]))
      [] OTHER -> FALSE

\* The entries that are objects with a label that is not empty, in order.
Labelled(body) ==
    SelectSeq(BodyItems(body),
              LAMBDA entry : entry.t = "object" /\ ~EmptyLabel(Field(entry, "label")))

\* A decimal literal or Infinity starts at place i of the characters: a digit,
\* a point and a digit, or the word Infinity.
NumberAt(chars, i) ==
    \/ IsDigit(chars[i])
    \/ chars[i] = "." /\ i < Len(chars) /\ IsDigit(chars[i + 1])
    \/ /\ i + 7 <= Len(chars)
       /\ SubSeq(chars, i, i + 7) = <<"I", "n", "f", "i", "n", "i", "t", "y">>

\* The characters start, after white space and an optional sign, with a number.
StartsWithNumber(chars) ==
    \E i \in DOMAIN chars :
        /\ NumberAt(chars, i)
        /\ \A j \in 1..(i - 1) :
              chars[j] \in WhiteSpace \/ (j = i - 1 /\ chars[j] \in {"+", "-"})

RECURSIVE Unparsable(_)
\* The score, written as a string, starts with no number: a string that
\* starts with none, a boolean, an object, or an array whose first element is
\* absent or starts with none.
Unparsable(score) ==
    CASE score.t = "string" -> ~StartsWithNumber(score.v)
      [] score.t \in {"boolean", "object", "NaN"} -> TRUE
      [] score.t = "array" ->
            \/ score.v = <<>>
            \/ score.v[1].t \in {"undefined", "null"}
            \/ Unparsable(score.v[1])
      [] OTHER -> FALSE

\* The item create was given for the entry: its label is not empty (the
\* entry's, when that is a string), its score is a number (never NaN): 0 for a
\* score that is absent, null or unparsable, the entry's when that is a
\* number.
Normalized(item, entry) ==
    LET label == Field(entry, "label")
        score == Field(entry, "score")
    IN  /\ item.label # <<>>
        /\ label.t = "string" => item.label = label.v
        /\ item.score.t \in {"number", "Infinity"}
        /\ (score.t \in {"undefined", "null"} \/ Unparsable(score)) =>
              item.score = Num(0)
        /\ score.t = "number" => item.score = score

(***************************************************************************)
(* C15: a POST that passes validation is answered 201 with the created     *)
(* record; its items are those of the body's entries whose label is not    *)
(* empty or missing after coercion, in order, each with a score that is 0  *)
(* where the entry's does not parse; if no entry is left, the record has   *)
(* exactly the one "auto-generated" placeholder item, with score 0.        *)
(***************************************************************************)
C15_ItemsNormalized ==
    (call.op = "request" /\ call.req.method = Str(POST) /\ res.status # 400) =>
        LET kept == Labelled(call.req.body)
            items == created[Len(created)].items
        IN  /\ res.status = 201
            /\ res.body.v.id = Num(created[Len(created)].id)
            /\ Len(res.body.v.items.v) = Len(items)
            /\ IF kept = <<>>
               THEN /\ Len(items) = 1
                    /\ items[1].label = PlaceholderLabel
                    /\ items[1].score = Num(0)
               ELSE /\ Len(items) = Len(kept)
                    /\ \A i \in DOMAIN kept : Normalized(items[i], kept[i])

C15_Witness ==
    /\ call.op = "request"
    /\ call.req.method = Str(POST)
    /\ res.status = 201
    /\ Len(BodyItems(call.req.body)) = 2
    /\ Labelled(call.req.body) = <<>>
    /\ Len(created) = 2
    /\ Len(created[1].items) = 10
    /\ created[1].items[1].score = Dec(35, 1)
    /\ created[1].items[2].label = <<"5">>
    /\ created[1].items[2].score = Num(0)
    /\ created[1].items[3].label = <<"t", "r", "u", "e">>
    /\ created[1].items[3].score = Num(4)
    /\ created[1].items[4].label = <<"a", ",", "1">>
    /\ created[1].items[4].score = Dec(-25, 1)
    /\ created[1].items[5].score = Infinity(FALSE)
    /\ created[1].items[6].label = <<"5", "e", "-", "7">>
    /\ created[1].items[6].score = Num(0)
    /\ created[1].items[7].label = created[1].items[5].label
    /\ created[1].items[7].score = Dec(35, 1)
    /\ created[1].items[8].label = <<"n">>
    /\ created[1].items[8].score = Dec(125, 2)
    /\ created[1].items[9].score =
          Long(FALSE, <<"9", "0", "0", "7", "1", "9", "9", "2", "5", "4", "7", "4",
                        "0", "9", "9", "2">>, 0)
    /\ created[1].items[10].score = Dec(5, 324)

\* The store is made on the first request and kept: a request that finds a
\* store leaves that store, with every record it held; the seed is built
\* exactly once however many requests are handled.
StoreKept ==
    /\ Constructed(store)
    /\ Constructed(call.before) =>
          /\ Len(store.state.analyses) >= Len(call.before.state.analyses)
          /\ \A e \in DOMAIN call.before.state.analyses :
                store.state.analyses[e] = call.before.state.analyses[e]
    /\ Cardinality({a \in DOMAIN heap : heap[a] = [message |-> SeedMessage]}) = 1
    /\ Cardinality({i \in DOMAIN Stored : Stored[i].id = 1}) = 1

\* The record create returned is in the response.
Responded(record) ==
    \E i \in DOMAIN res.body.v : res.body.v[i].v.id = Num(record.id)

\* The decimal digits of an integer.
IntegerChars(n) == IF n < 0 THEN <<"-">> \o NatToChars(-n) ELSE NatToChars(n)

\* The query has no snapshot_id parameter, or one that is the snapshot id in
\* decimal digits.
AsksFor(query, snapshotId) ==
    \/ Field(query, "snapshot_id").t = "undefined"
    \/ /\ Field(query, "snapshot_id").t = "string"
       /\ "scale" \notin DOMAIN snapshotId
       /\ Field(query, "snapshot_id").v = IntegerChars(snapshotId.v)

(***************************************************************************)
(* C12 as stated: the store is made on the first request and kept: a       *)
(* request that finds a store leaves that store, with every record it held;*)
(* the seed is built exactly once however many requests are handled; a     *)
(* record a POST created is in the response of every later GET.            *)
(***************************************************************************)
C12_AsStated ==
    call.op = "request" =>
        /\ StoreKept
        /\ (call.req.method = Str(GET) /\ res.status = 200) =>
              \A c \in DOMAIN created : Responded(created[c])

(***************************************************************************)
(* C12 as amended: the store is made on the first request and kept: a      *)
(* request that finds a store leaves that store, with every record it held;*)
(* the seed is built exactly once however many requests are handled; a     *)
(* record a POST created is in the response of every later GET that has no *)
(* snapshot_id parameter, and of every later GET whose snapshot_id         *)
(* parameter is the record's snapshotId in decimal digits.                 *)
(***************************************************************************)
C12_OneStorePerProcess ==
    call.op = "request" =>
        /\ StoreKept
        /\ (call.req.method = Str(GET) /\ res.status = 200) =>
              \A c \in DOMAIN created :
                  AsksFor(call.req.query, created[c].snapshotId) =>
                      Responded(created[c])

C12_Witness ==
    /\ call.op = "request"
    /\ call.req.method = Str(GET)
    /\ call.req.query = Obj([snapshot_id |-> Str(<<"7">>)])
    /\ Constructed(call.before)
    /\ res.status = 200
    /\ Len(created) = 2
    /\ created[1].snapshotId = Num(0)
    /\ created[2].snapshotId = Num(7)
    /\ Len(res.body.v) = 1
    /\ Responded(created[2])

(***************************************************************************)
(* C16: a caller's mutation of the input it passed to create, made after   *)
(* create has returned (to its items sequence, to an input item's fields,  *)
(* to the contents of an input item's payload), leaves what list() returns *)
(* as it was.                                                              *)
(***************************************************************************)
C16_InputIsolated == [][call'.op = "mutateInput" => DeepList' = DeepList]_vars

(***************************************************************************)
(* Views of handler invocations.                                           *)
(***************************************************************************)
\* The create invocations that have read their Analysis id.
Creating == {p \in Procs : frames[p].op = "create" /\ frames[p].analysis # Undefined}

\* The create invocations that have inserted their record.
Inserted == {p \in Creating : frames[p].pc \in {"return", "done"}}

\* The item ids an invocation has assigned so far.
ItemIdsAssigned(p) ==
    {frames[p].analysis.items[i].id : i \in DOMAIN frames[p].analysis.items}

(***************************************************************************)
(* C11: however create and list requests that arrive concurrently are      *)
(* interleaved, no two creates obtain the same Analysis id or the same item*)
(* id (nor the seed's), the record each create inserted stays in the map as*)
(* that create built it, and no list has returned a record with fewer items*)
(* than the create of that record returns.                                 *)
(***************************************************************************)
C11_CreateAppearsAtomic ==
    /\ \A p, q \in Creating :
          p # q =>
              /\ frames[p].id # frames[q].id
              /\ ItemIdsAssigned(p) \cap ItemIdsAssigned(q) = {}
    /\ \A p \in Creating : frames[p].id # 1 /\ 1 \notin ItemIdsAssigned(p)
    /\ \A p \in Inserted :
          /\ MapHas(store.state.analyses, frames[p].id)
          /\ MapGet(store.state.analyses, frames[p].id) = frames[p].analysis
    /\ Constructed(store) => Len(Stored) = 1 + Cardinality(Inserted)
    /\ \A l \in Procs :
          (frames[l].op = "list" /\ frames[l].pc = "done") =>
              \A k \in DOMAIN frames[l].result :
                  \/ frames[l].result[k].id = 1
                  \/ \E p \in Inserted :
                        /\ frames[p].id = frames[l].result[k].id
                        /\ frames[p].pc = "done" =>
                              frames[l].result[k].items = frames[p].result[1].items

C11_Witness ==
    /\ \A p \in Procs : frames[p].pc = "done"
    /\ Cardinality(Inserted) = 2
    /\ \E l \in Procs :
          /\ frames[l].op = "list"
          /\ Len(frames[l].result) = 2
    /\ \E p \in Inserted : Len(frames[p].analysis.items) = 2

====
